---- MODULE Spec2Model ----
(***************************************************************************)
(* Model of the analytics engine of baseball-analytics: RegressionDetector *)
(* (src/src/analytics/regression_detector.py), RoleClassifier              *)
(* (src/src/analytics/role_classifier.py) and AdvancedPerformancePredictor *)
(* (src/src/analytics/predictive_model.py).                                *)
(*                                                                         *)
(* Numbers.  Rate stats are exact fixed-point numbers: BABIP and ISO in    *)
(* thousandths (0.370 is 370), K%, BB% and HR/FB% in tenths of a           *)
(* percentage point (5.0pp is 50), wRC+ and PA in units.  A career average *)
(* (SQL AVG) is the exact rational sum/count, kept as numerator and        *)
(* denominator, and every comparison against a threshold is done by cross  *)
(* multiplication.  Binary floating-point representation error is not      *)
(* modelled.                                                               *)
(*                                                                         *)
(* Store.  season_stats and statcast_data hold the rows of one player, at   *)
(* most one row per season; player_id 1 is that player.  The rows of the   *)
(* other players are in `others`, which is empty except in the batch       *)
(* scans.                                                                  *)
(***************************************************************************)
EXTENDS Integers, Sequences, FiniteSets

VARIABLES
    season_stats,     \* the season_stats rows of the stored player, by season
    statcast_data,    \* the statcast_data rows of the stored player, by season
    others,           \* the rows of the other players, by player_id
    birth_year,       \* players.birth_date of the stored player (its year)
    league_averages,  \* RegressionDetector.league_averages of the live instance
    threads,          \* the calls in progress on the shared instance
    call,             \* the call made last
    result            \* what it returned or raised

vars == <<season_stats, statcast_data, others, birth_year, league_averages,
          threads, call, result>>

\* ---------------------------------------------------------------- values

\* SQL NULL / Python None, and a present number.
NULL == [k |-> "null", v |-> 0]
Num(x) == [k |-> "num", v |-> x]
IsNull(x) == x.k = "null"

\* A nullable exact rational n/d (d > 0): the value of SQL AVG.
RNULL == [k |-> "null", n |-> 0, d |-> 1]
Rat(n, d) == [k |-> "num", n |-> n, d |-> d]

Abs(x) == IF x < 0 THEN -x ELSE x

\* ------------------------------------------------ RegressionDetector tiers

TIER_1_BABIP_DELTA == 50
TIER_2_BABIP_DELTA == 30
TIER_3_BABIP_DELTA == 15

TIER_1_K_DELTA == 50
TIER_2_K_DELTA == 30
TIER_3_K_DELTA == 15

TIER_1_BB_DELTA == 40
TIER_2_BB_DELTA == 25
TIER_3_BB_DELTA == 15

TIER_1_ISO_DELTA == 60
TIER_2_ISO_DELTA == 40
TIER_3_ISO_DELTA == 25

TIER_1_HRFB_DELTA == 80
TIER_2_HRFB_DELTA == 50
TIER_3_HRFB_DELTA == 30

\* The tier of a delta, 0 standing for Python's None (no tier).  delta is the
\* rational delta.n / delta.d, so abs(delta) >= t is Abs(delta.n) >= t * delta.d.
determine_tier_gt(delta, tier1_threshold, tier2_threshold, tier3_threshold) ==
    LET abs_delta == Abs(delta.n)
    IN  IF abs_delta > tier1_threshold * delta.d THEN 1
        ELSE IF abs_delta > tier2_threshold * delta.d THEN 2
        ELSE IF abs_delta > tier3_threshold * delta.d THEN 3
        ELSE 0

determine_tier(delta, tier1_threshold, tier2_threshold, tier3_threshold) ==
    LET abs_delta == Abs(delta.n)
    IN  IF abs_delta >= tier1_threshold * delta.d THEN 1
        ELSE IF abs_delta >= tier2_threshold * delta.d THEN 2
        ELSE IF abs_delta >= tier3_threshold * delta.d THEN 3
        ELSE 0

\* A detector's "return None".
NoAlert == [kind |-> "None"]

\* current - career, current a number and career the rational n/d.
Delta(current, career) == [n |-> current.v * career.d - career.n, d |-> career.d]

\* The alert dict of a detector; the formatted 'message' string is left out.
Alert(metric, tier, direction, signal, current, career, delta) ==
    [kind |-> "alert", metric |-> metric, tier |-> tier, direction |-> direction,
     signal |-> signal, current |-> current, expected |-> career, delta |-> delta]

detect_babip_regression(current_babip, career_babip) ==
    IF IsNull(current_babip) \/ IsNull(career_babip) THEN NoAlert
    ELSE LET delta == Delta(current_babip, career_babip)
             tier == determine_tier(delta, TIER_1_BABIP_DELTA,
                                    TIER_2_BABIP_DELTA, TIER_3_BABIP_DELTA)
         IN  IF tier = 0 THEN NoAlert
             ELSE Alert("BABIP", tier,
                        IF delta.n > 0 THEN "negative" ELSE "positive",
                        IF delta.n > 0 THEN "SELL" ELSE "BUY",
                        current_babip, career_babip, delta)

detect_k_rate_regression(current_k_pct, career_k_pct) ==
    IF IsNull(current_k_pct) \/ IsNull(career_k_pct) THEN NoAlert
    ELSE LET delta == Delta(current_k_pct, career_k_pct)
             tier == determine_tier(delta, TIER_1_K_DELTA,
                                    TIER_2_K_DELTA, TIER_3_K_DELTA)
         IN  IF tier = 0 THEN NoAlert
             ELSE Alert("K%", tier,
                        IF delta.n > 0 THEN "negative" ELSE "positive",
                        IF delta.n > 0 THEN "SELL" ELSE "BUY",
                        current_k_pct, career_k_pct, delta)

detect_bb_rate_regression_flipped(current_bb_pct, career_bb_pct) ==
    IF IsNull(current_bb_pct) \/ IsNull(career_bb_pct) THEN NoAlert
    ELSE LET delta == Delta(current_bb_pct, career_bb_pct)
             tier == determine_tier(delta, TIER_1_BB_DELTA,
                                    TIER_2_BB_DELTA, TIER_3_BB_DELTA)
         IN  IF tier = 0 THEN NoAlert
             ELSE Alert("BB%", tier,
                        IF delta.n > 0 THEN "negative" ELSE "positive",
                        IF delta.n > 0 THEN "SELL" ELSE "BUY",
                        current_bb_pct, career_bb_pct, delta)

detect_bb_rate_regression(current_bb_pct, career_bb_pct) ==
    IF IsNull(current_bb_pct) \/ IsNull(career_bb_pct) THEN NoAlert
    ELSE LET delta == Delta(current_bb_pct, career_bb_pct)
             tier == determine_tier(delta, TIER_1_BB_DELTA,
                                    TIER_2_BB_DELTA, TIER_3_BB_DELTA)
         IN  IF tier = 0 THEN NoAlert
             ELSE Alert("BB%", tier,
                        IF delta.n > 0 THEN "positive" ELSE "negative",
                        IF delta.n > 0 THEN "BUY" ELSE "SELL",
                        current_bb_pct, career_bb_pct, delta)

detect_iso_regression(current_iso, career_iso) ==
    IF IsNull(current_iso) \/ IsNull(career_iso) THEN NoAlert
    ELSE LET delta == Delta(current_iso, career_iso)
             tier == determine_tier(delta, TIER_1_ISO_DELTA,
                                    TIER_2_ISO_DELTA, TIER_3_ISO_DELTA)
         IN  IF tier = 0 THEN NoAlert
             ELSE Alert("ISO", tier,
                        IF delta.n > 0 THEN "positive" ELSE "negative",
                        IF delta.n > 0 THEN "BUY" ELSE "SELL",
                        current_iso, career_iso, delta)

detect_hr_fb_regression(current_hr_fb, career_hr_fb) ==
    IF IsNull(current_hr_fb) \/ IsNull(career_hr_fb) THEN NoAlert
    ELSE LET delta == Delta(current_hr_fb, career_hr_fb)
             tier == determine_tier(delta, TIER_1_HRFB_DELTA,
                                    TIER_2_HRFB_DELTA, TIER_3_HRFB_DELTA)
         IN  IF tier = 0 THEN NoAlert
             ELSE Alert("HR/FB%", tier,
                        IF delta.n > 0 THEN "negative" ELSE "positive",
                        IF delta.n > 0 THEN "SELL" ELSE "BUY",
                        current_hr_fb, career_hr_fb, delta)

\* ------------------------------------------------------------ the store

\* Number of seasons the store covers.
NumSeasons == 3

\* The season the scans and the predictor take as current by default.
CurrentSeason == 2025

Seasons == (CurrentSeason + 1 - NumSeasons)..CurrentSeason

\* The player_id arguments tried; season_stats holds the rows of StoredPlayers.
StoredPlayers == {1}
PlayerIds == {1, 2}

NoRow == [kind |-> "norow"]

Row(pa, wrc_plus, babip, k_pct, bb_pct, iso, hr_fb_pct, woba) ==
    [kind |-> "row", pa |-> pa, wrc_plus |-> wrc_plus, babip |-> babip,
     k_pct |-> k_pct, bb_pct |-> bb_pct, iso |-> iso, hr_fb_pct |-> hr_fb_pct,
     woba |-> woba]

\* The season rows the loader may write: PA on both sides of the 50 / 100 / 200
\* limits, rate stats on and around the tier thresholds, NULL rate stats.  The
\* rows with NULL in wRC+, BABIP, K% or HR/FB% have PA < 100, so the rows the
\* predictor reads as recent seasons hold numbers in those columns.
RowCatalogue ==
    { Row(150, Num(100), Num(310), Num(200), Num(80),  Num(150), Num(120), Num(320)),
      Row(50,  Num(80),  Num(311), Num(215), Num(95),  Num(125), NULL,     Num(300)),
      Row(49,  Num(120), Num(400), Num(100), Num(150), Num(250), Num(300), Num(380)),
      Row(100, Num(140), Num(370), Num(200), Num(80),  Num(150), Num(120), Num(360)),
      Row(150, Num(119), Num(260), Num(250), Num(120), Num(110), Num(90),  Num(340)),
      Row(60,  NULL,     NULL,     NULL,     Num(95),  Num(175), NULL,     NULL),
      Row(450, Num(101), Num(325), Num(185), Num(0),   Num(190), Num(200), Num(321)) }

\* The season_stats row of (player_id, season), NoRow when there is none.
RowOf(player_id, season) ==
    IF player_id \in StoredPlayers THEN season_stats[season]
    ELSE IF player_id \in DOMAIN others THEN others[player_id].season_stats[season]
    ELSE NoRow

HasRow(player_id, season) ==
    season \in Seasons /\ RowOf(player_id, season).kind = "row"

RECURSIVE SetSum(_, _)
SetSum(S, f) ==
    IF S = {} THEN 0
    ELSE LET x == CHOOSE y \in S : TRUE
         IN  f[x] + SetSum(S \ {x}, f)

\* SQL AVG(col) over the seasons of Q: NULL rows are skipped, no value gives NULL.
SqlAvg(player_id, Q, col) ==
    LET present == {s \in Q : ~IsNull(RowOf(player_id, s)[col])}
    IN  IF present = {} THEN RNULL
        ELSE Rat(SetSum(present, [s \in present |-> RowOf(player_id, s)[col].v]),
                 Cardinality(present))

\* The Python None returned by a query or an analysis.
None == [kind |-> "None"]

\* The players with season rows: the stored player and the other players.
AllPlayers == StoredPlayers \cup DOMAIN others

\* The rows of a season that the league query reads: babip IS NOT NULL and
\* pa >= 100, by player.
LeagueRows(season) ==
    {p \in AllPlayers : /\ HasRow(p, season)
                        /\ ~IsNull(RowOf(p, season).babip)
                        /\ RowOf(p, season).pa >= 100}

\* AVG(col) over the league rows of a season, NULLs skipped.
LeagueAvg(season, col) ==
    LET present == {p \in LeagueRows(season) : ~IsNull(RowOf(p, season)[col])}
    IN  IF present = {} THEN RNULL
        ELSE Rat(SetSum(present, [p \in present |-> RowOf(p, season)[col].v]),
                 Cardinality(present))

\* The league_averages table a RegressionDetector builds when constructed: one
\* row for each season that has a league row (GROUP BY season).
calculate_league_averages ==
    [season \in {t \in Seasons : LeagueRows(t) # {}} |->
        [avg_babip |-> LeagueAvg(season, "babip"),
         avg_bb_pct |-> LeagueAvg(season, "bb_pct"),
         avg_k_pct |-> LeagueAvg(season, "k_pct"),
         avg_iso |-> LeagueAvg(season, "iso"),
         avg_hr_fb_pct |-> LeagueAvg(season, "hr_fb_pct"),
         player_count |-> Cardinality(LeagueRows(season))]]

\* self.league_averages[self.league_averages['season'] == season].iloc[0], None
\* when the table has no row for the season.
LeagueAvgOf(self_league_averages, season) ==
    IF season \in DOMAIN self_league_averages
    THEN self_league_averages[season] ELSE None

\* Mutant: the prior-season filter includes the analysed season (season <= :season).
get_player_career_baseline_incl(player_id, current_season) ==
    LET Q == {s \in Seasons : /\ HasRow(player_id, s)
                              /\ s <= current_season
                              /\ RowOf(player_id, s).pa >= 50}
        total_pa == SetSum(Q, [s \in Q |-> RowOf(player_id, s).pa])
    IN  IF Q # {} /\ total_pa # 0 /\ total_pa >= 200
        THEN [kind |-> "baseline",
              career_babip |-> SqlAvg(player_id, Q, "babip"),
              career_bb_pct |-> SqlAvg(player_id, Q, "bb_pct"),
              career_k_pct |-> SqlAvg(player_id, Q, "k_pct"),
              career_iso |-> SqlAvg(player_id, Q, "iso"),
              career_hr_fb_pct |-> SqlAvg(player_id, Q, "hr_fb_pct"),
              total_pa |-> total_pa,
              seasons |-> Cardinality(Q)]
        ELSE None

\* One aggregate row over the player's seasons before current_season with
\* PA >= 50; SUM(pa) is NULL when there is none.
get_player_career_baseline(player_id, current_season) ==
    LET Q == {s \in Seasons : /\ HasRow(player_id, s)
                              /\ s < current_season
                              /\ RowOf(player_id, s).pa >= 50}
        total_pa == SetSum(Q, [s \in Q |-> RowOf(player_id, s).pa])
    IN  IF Q # {} /\ total_pa # 0 /\ total_pa >= 200
        THEN [kind |-> "baseline",
              career_babip |-> SqlAvg(player_id, Q, "babip"),
              career_bb_pct |-> SqlAvg(player_id, Q, "bb_pct"),
              career_k_pct |-> SqlAvg(player_id, Q, "k_pct"),
              career_iso |-> SqlAvg(player_id, Q, "iso"),
              career_hr_fb_pct |-> SqlAvg(player_id, Q, "hr_fb_pct"),
              total_pa |-> total_pa,
              seasons |-> Cardinality(Q)]
        ELSE None

\* ------------------------------------------------- analyze_player_season

\* all_alerts.append(alert) when the detector returned an alert.
AppendAlert(all_alerts, alert) ==
    IF alert.kind = "alert" THEN Append(all_alerts, alert) ELSE all_alerts

CountSignal(all_alerts, signal) ==
    Cardinality({i \in DOMAIN all_alerts : all_alerts[i].signal = signal})

\* Mutant: max() in place of min().
MinTier_max(all_alerts) ==
    IF all_alerts = <<>> THEN NULL
    ELSE Num(CHOOSE t \in 1..3 :
               /\ \E i \in DOMAIN all_alerts : all_alerts[i].tier = t
               /\ \A i \in DOMAIN all_alerts : all_alerts[i].tier <= t)

\* min([a['tier'] for a in all_alerts]) if all_alerts else None
MinTier(all_alerts) ==
    IF all_alerts = <<>> THEN NULL
    ELSE Num(CHOOSE t \in 1..3 :
               /\ \E i \in DOMAIN all_alerts : all_alerts[i].tier = t
               /\ \A i \in DOMAIN all_alerts : all_alerts[i].tier >= t)

\* Mutant: the BB% alert is appended a second time in place of the ISO check.
RunAllChecks_dup(row, career_baseline) ==
    LET a1 == AppendAlert(<<>>, detect_babip_regression(row.babip, career_baseline.career_babip))
        a2 == AppendAlert(a1, detect_k_rate_regression(row.k_pct, career_baseline.career_k_pct))
        a3 == AppendAlert(a2, detect_bb_rate_regression(row.bb_pct, career_baseline.career_bb_pct))
        a4 == AppendAlert(a3, detect_bb_rate_regression(row.bb_pct, career_baseline.career_bb_pct))
    IN  AppendAlert(a4, detect_hr_fb_regression(row.hr_fb_pct, career_baseline.career_hr_fb_pct))

RunAllChecks(row, career_baseline) ==
    LET a1 == AppendAlert(<<>>, detect_babip_regression(row.babip, career_baseline.career_babip))
        a2 == AppendAlert(a1, detect_k_rate_regression(row.k_pct, career_baseline.career_k_pct))
        a3 == AppendAlert(a2, detect_bb_rate_regression(row.bb_pct, career_baseline.career_bb_pct))
        a4 == AppendAlert(a3, detect_iso_regression(row.iso, career_baseline.career_iso))
    IN  AppendAlert(a4, detect_hr_fb_regression(row.hr_fb_pct, career_baseline.career_hr_fb_pct))

\* What analyze_player_season returns from the season row and the career
\* baseline it has fetched.
AnalysisFrom(player_id, season, row, career_baseline) ==
    LET all_alerts == RunAllChecks(row, career_baseline)
        buy_signals == CountSignal(all_alerts, "BUY")
        sell_signals == CountSignal(all_alerts, "SELL")
    IN  [kind |-> "analysis",
         player_id |-> player_id,
         season |-> season,
         pa |-> row.pa,
         current_stats |-> row,
         career_baseline |-> career_baseline,
         alerts |-> all_alerts,
         alert_count |-> Len(all_alerts),
         max_tier |-> MinTier(all_alerts),
         buy_signals |-> buy_signals,
         sell_signals |-> sell_signals,
         net_signal |-> buy_signals - sell_signals]

\* The body of analyze_player_season with the league_avg it has read from the
\* detector's table; no check and no field of the result uses league_avg.
AnalysisWith(player_id, season, league_avg) ==
    IF ~HasRow(player_id, season) THEN None
    ELSE LET row == RowOf(player_id, season)
             career_baseline == get_player_career_baseline(player_id, season)
         IN  IF career_baseline.kind = "None" THEN None
             ELSE AnalysisFrom(player_id, season, row, career_baseline)

\* Mutant: an analysis that needs the season's row of the detector's table.
analyze_player_season_on_table(self_league_averages, player_id, season) ==
    IF LeagueAvgOf(self_league_averages, season) = None THEN None
    ELSE AnalysisWith(player_id, season,
                      LeagueAvgOf(self_league_averages, season))

\* analyze_player_season of the detector whose league_averages field is
\* self_league_averages.
analyze_player_season_on(self_league_averages, player_id, season) ==
    AnalysisWith(player_id, season, LeagueAvgOf(self_league_averages, season))

\* analyze_player_season of the long-lived detector of this program.
analyze_player_season(player_id, season) ==
    analyze_player_season_on(league_averages, player_id, season)

\* ------------------------------------------------------- RoleClassifier

ROLE_DEFINITIONS ==
    {"EVERYDAY_REGULAR", "EVERYDAY_PLATOON_LEANING", "STRONG_SIDE_PLATOON",
     "HIGH_LEVERAGE_ROLE_PLAYER", "ROTATIONAL_REGULAR", "DEFENSIVE_REPLACEMENT",
     "BENCH_BAT", "UTILITY_DEPTH", "FRINGE_ROSTER"}

\* a / b if b > 0 else 0, as the exact ratio n/d.
RatioOrZero(a, b) == IF b > 0 THEN [n |-> a, d |-> b] ELSE [n |-> 0, d |-> 1]

RolePrediction(role, confidence, pa_per_team_game, games_played_pct, avg_pa_per_game) ==
    [kind |-> "role", role |-> role, confidence |-> confidence,
     pa_per_team_game |-> pa_per_team_game,
     games_played_pct |-> games_played_pct,
     avg_pa_per_game |-> avg_pa_per_game]

\* Mutant: the rotational rule compares with < in place of >=.
classify_season_lt(games_played, pa, team_games) ==
    LET pa_per_team_game == RatioOrZero(pa, team_games)
        games_played_pct == RatioOrZero(games_played, team_games)
        avg_pa_per_game == RatioOrZero(pa, games_played)
        P(role, confidence) ==
            RolePrediction(role, confidence, pa_per_team_game, games_played_pct,
                           avg_pa_per_game)
    IN  IF /\ 2 * pa_per_team_game.n >= 7 * pa_per_team_game.d
           /\ 4 * games_played_pct.n >= 3 * games_played_pct.d
        THEN P("EVERYDAY_REGULAR", 95)
        ELSE IF /\ pa_per_team_game.n >= 3 * pa_per_team_game.d
                /\ 20 * games_played_pct.n >= 13 * games_played_pct.d
        THEN P("EVERYDAY_REGULAR", 90)
        ELSE IF pa_per_team_game.n < 2 * pa_per_team_game.d
        THEN P("ROTATIONAL_REGULAR", 85)
        ELSE IF pa_per_team_game.n >= pa_per_team_game.d
        THEN IF 4 * games_played_pct.n < games_played_pct.d
             THEN P("DEFENSIVE_REPLACEMENT", 75)
             ELSE P("UTILITY_DEPTH", 75)
        ELSE P("FRINGE_ROSTER", 90)

\* Confidence is in hundredths.  Ratios are compared exactly:
\* x >= 3.5 is 2x >= 7, x >= 0.75 is 4x >= 3, x >= 0.65 is 20x >= 13,
\* x < 0.25 is 4x < 1.
classify_season(games_played, pa, team_games) ==
    LET pa_per_team_game == RatioOrZero(pa, team_games)
        games_played_pct == RatioOrZero(games_played, team_games)
        avg_pa_per_game == RatioOrZero(pa, games_played)
        P(role, confidence) ==
            RolePrediction(role, confidence, pa_per_team_game, games_played_pct,
                           avg_pa_per_game)
    IN  IF /\ 2 * pa_per_team_game.n >= 7 * pa_per_team_game.d
           /\ 4 * games_played_pct.n >= 3 * games_played_pct.d
        THEN P("EVERYDAY_REGULAR", 95)
        ELSE IF /\ pa_per_team_game.n >= 3 * pa_per_team_game.d
                /\ 20 * games_played_pct.n >= 13 * games_played_pct.d
        THEN P("EVERYDAY_REGULAR", 90)
        ELSE IF pa_per_team_game.n >= 2 * pa_per_team_game.d
        THEN P("ROTATIONAL_REGULAR", 85)
        ELSE IF pa_per_team_game.n >= pa_per_team_game.d
        THEN IF 4 * games_played_pct.n < games_played_pct.d
             THEN P("DEFENSIVE_REPLACEMENT", 75)
             ELSE P("UTILITY_DEPTH", 75)
        ELSE P("FRINGE_ROSTER", 90)

\* ------------------------------------------ AdvancedPerformancePredictor

\* MLB average aging curve, ages 21..40.
AGE_CURVE ==
    [a \in 21..40 |->
        <<-8, -5, -3, -1, 0, 1, 2, 2, 1, 0, -1, -2, -3, -5, -7, -10, -13, -16,
          -20, -25>>[a - 20]]

\* Mutant: the two fallback constants exchanged.
AgeCurveGet_exchanged(age) ==
    IF age \in DOMAIN AGE_CURVE THEN AGE_CURVE[age]
    ELSE IF age > 40 THEN -8 ELSE -25

\* AGE_CURVE.get(int(age), -25 if age > 40 else -8)
AgeCurveGet(age) ==
    IF age \in DOMAIN AGE_CURVE THEN AGE_CURVE[age]
    ELSE IF age > 40 THEN -25 ELSE -8

\* Ages are None or a number; "not age" holds for None and for 0.
get_age_adjustment(current_age, next_age) ==
    IF \/ IsNull(current_age) \/ current_age.v = 0
       \/ IsNull(next_age) \/ next_age.v = 0
    THEN 0
    ELSE AgeCurveGet(next_age.v) - AgeCurveGet(current_age.v)

\* A test for None only: 0.0 passes.
Truthy_isnotnone(x) == ~IsNull(x)

\* Python truthiness of a float-or-None: None and 0.0 are false.
Truthy(x) == ~IsNull(x) /\ x.v # 0
TruthyRat(r) == r.k = "num" /\ r.n # 0

\* round() of the rational n/d, d > 0: to nearest, halves to the even integer.
RoundHalfEven(n, d) ==
    LET q == n \div d
        r == n - q * d
    IN  IF 2 * r < d THEN q
        ELSE IF 2 * r > d THEN q + 1
        ELSE IF q % 2 = 0 THEN q ELSE q + 1

\* K% and BB% are in tenths of a point: k_delta = kn / (10 * dk) points, and
\* total_score = -2 * k_delta + 2 * bb_delta = (bn * dk - kn * db) / (5 * dk * db).
calculate_plate_discipline_score(k_pct, bb_pct, career_k_pct, career_bb_pct) ==
    IF ~(Truthy(k_pct) /\ Truthy(bb_pct) /\ TruthyRat(career_k_pct)
         /\ TruthyRat(career_bb_pct))
    THEN [adj |-> 0, confidence |-> "NONE"]
    ELSE LET dk == career_k_pct.d
             db == career_bb_pct.d
             kn == k_pct.v * dk - career_k_pct.n
             bn == bb_pct.v * db - career_bb_pct.n
             confidence ==
                 IF Abs(kn) >= 30 * dk \/ Abs(bn) >= 20 * db THEN "HIGH"
                 ELSE IF Abs(kn) >= 15 * dk \/ Abs(bn) >= 10 * db THEN "MEDIUM"
                 ELSE "LOW"
         IN  [adj |-> RoundHalfEven(bn * dk - kn * db, 5 * dk * db),
              confidence |-> confidence]

\* ISO in thousandths (0.060 is 60), HR/FB% in tenths (8 points is 80).
calculate_power_sustainability_score(iso, hr_fb_pct, career_iso, career_hr_fb_pct) ==
    IF ~(Truthy(iso) /\ TruthyRat(career_iso))
    THEN [adj |-> 0, flags |-> <<>>]
    ELSE LET di == career_iso.d
             iso_delta == iso.v * di - career_iso.n
             flags1 == IF iso_delta > 60 * di THEN <<"UNSUSTAINABLE_POWER_SPIKE">>
                       ELSE IF iso_delta < -60 * di THEN <<"POWER_DECLINE">>
                       ELSE <<>>
             adj1 == IF iso_delta > 60 * di THEN -5
                     ELSE IF iso_delta < -60 * di THEN -3
                     ELSE 0
         IN  IF Truthy(hr_fb_pct) /\ TruthyRat(career_hr_fb_pct)
             THEN LET dh == career_hr_fb_pct.d
                      hr_fb_delta == hr_fb_pct.v * dh - career_hr_fb_pct.n
                  IN  IF hr_fb_delta > 80 * dh
                      THEN [adj |-> adj1 - 3,
                            flags |-> Append(flags1, "INFLATED_HR_FB_PCT")]
                      ELSE IF hr_fb_delta < -80 * dh
                      THEN [adj |-> adj1 + 3,
                            flags |-> Append(flags1, "DEPRESSED_HR_FB_PCT")]
                      ELSE [adj |-> adj1, flags |-> flags1]
             ELSE [adj |-> adj1, flags |-> flags1]

calculate_contact_quality_score(babip, career_babip, iso, career_iso) ==
    IF ~(Truthy(babip) /\ TruthyRat(career_babip) /\ Truthy(iso)
         /\ TruthyRat(career_iso))
    THEN [adj |-> 0, type |-> "UNKNOWN"]
    ELSE LET db == career_babip.d
             di == career_iso.d
             babip_delta == babip.v * db - career_babip.n
             iso_delta == iso.v * di - career_iso.n
         IN  IF babip_delta > 40 * db
             THEN IF iso_delta < -30 * di THEN [adj |-> -7, type |-> "LUCKY_SINGLES"]
                  ELSE IF iso_delta > 30 * di
                  THEN [adj |-> 3, type |-> "IMPROVED_CONTACT"]
                  ELSE [adj |-> -4, type |-> "BABIP_DRIVEN"]
             ELSE IF babip_delta < -40 * db
             THEN IF iso_delta > 30 * di THEN [adj |-> 7, type |-> "UNLUCKY_POWER"]
                  ELSE [adj |-> 5, type |-> "UNLUCKY"]
             ELSE [adj |-> 0, type |-> "NEUTRAL"]

\* recent_seasons_df is the sequence of recent rows, most recent first.  The
\* degree-1 least-squares slope through (0, y1), (1, y2), (2, y3) is
\* (y3 - y1) / 2, so each *_trend2 below is twice the slope, in the column's
\* unit: |k_trend| > 1.5 is |k_trend2| > 30 tenths, and so on.
detect_skill_change(recent_seasons_df) ==
    IF Len(recent_seasons_df) < 3 THEN [genuine_change |-> FALSE]
    ELSE LET k_trend2 == recent_seasons_df[3].k_pct.v - recent_seasons_df[1].k_pct.v
             bb_trend2 == recent_seasons_df[3].bb_pct.v - recent_seasons_df[1].bb_pct.v
             iso_trend2 == recent_seasons_df[3].iso.v - recent_seasons_df[1].iso.v
             significant_k == Abs(k_trend2) > 30
             significant_bb == Abs(bb_trend2) > 16
             significant_iso == Abs(iso_trend2) > 50
             num_significant ==
                 Cardinality({x \in {<<1, significant_k>>, <<2, significant_bb>>,
                                     <<3, significant_iso>>} : x[2]})
         IN  [genuine_change |-> num_significant >= 2,
              k_trend2 |-> k_trend2,
              bb_trend2 |-> bb_trend2,
              iso_trend2 |-> iso_trend2,
              improving |-> (k_trend2 < -20 \/ bb_trend2 > 10 \/ iso_trend2 > 40),
              declining |-> (k_trend2 > 20 \/ bb_trend2 < -10 \/ iso_trend2 < -40)]

\* The seasons of S, latest first, at most `limit` of them (ORDER BY season
\* DESC LIMIT limit).
RECURSIVE OrderDescLimit(_, _)
OrderDescLimit(S, limit) ==
    IF S = {} \/ limit = 0 THEN <<>>
    ELSE LET m == CHOOSE x \in S : \A y \in S : y <= x
         IN  <<m>> \o OrderDescLimit(S \ {m}, limit - 1)

\* The recent-performance query: the rows of the player with season <=
\* current_season and PA >= 100, latest first, at most three, each with the age
\* column (season - birth year, NULL without a birth date).
RecentRows(player_id, current_season) ==
    LET Q == {t \in Seasons : /\ HasRow(player_id, t)
                              /\ t <= current_season
                              /\ RowOf(player_id, t).pa >= 100}
        ordered == OrderDescLimit(Q, 3)
    IN  [i \in DOMAIN ordered |->
            [season |-> ordered[i],
             row |-> RowOf(player_id, ordered[i]),
             age |-> IF IsNull(birth_year) THEN NULL
                     ELSE Num(ordered[i] - birth_year.v)]]

\* np.array([0.5, 0.3, 0.2])[:len(recent)], in tenths; dividing by their sum
\* normalises them.
WeightTenths == <<5, 3, 2>>

RECURSIVE SeqSum(_)
SeqSum(q) == IF q = <<>> THEN 0 ELSE q[1] + SeqSum(Tail(q))

\* A float NaN.
NAN == [k |-> "nan", v |-> 0]

\* An exception propagating out of the call.
Raised(error) == [kind |-> "raised", error |-> error]

\* round(p - s) and round(p + s) for p = pn / pd and s = sqrt(s2n / s2d), the
\* result searched within `width` of `centre`.  p - s >= h/2 and p + s >= h/2 are
\* decided on squares.
RoundLower(pn, pd, s2n, s2d, centre, width) ==
    LET Ge(h) == /\ 2 * pn - h * pd >= 0
                 /\ (2 * pn - h * pd) * (2 * pn - h * pd) * s2d >= 4 * s2n * pd * pd
        Eq(h) == /\ 2 * pn - h * pd >= 0
                 /\ (2 * pn - h * pd) * (2 * pn - h * pd) * s2d = 4 * s2n * pd * pd
        k == CHOOSE x \in (centre - width)..(centre + width) :
                 Ge(2 * x - 1) /\ ~Ge(2 * x + 1)
    IN  IF Eq(2 * k - 1) /\ k % 2 = 1 THEN k - 1 ELSE k

RoundUpper(pn, pd, s2n, s2d, centre, width) ==
    LET Ge(h) == \/ h * pd - 2 * pn <= 0
                 \/ (h * pd - 2 * pn) * (h * pd - 2 * pn) * s2d <= 4 * s2n * pd * pd
        Eq(h) == /\ h * pd - 2 * pn >= 0
                 /\ (h * pd - 2 * pn) * (h * pd - 2 * pn) * s2d = 4 * s2n * pd * pd
        k == CHOOSE x \in (centre - width)..(centre + width) :
                 Ge(2 * x - 1) /\ ~Ge(2 * x + 1)
    IN  IF Eq(2 * k - 1) /\ k % 2 = 1 THEN k - 1 ELSE k

\* Component 6 with every alert counted, whatever its tier.
RegressionAdjustment_anytier(regression_analysis) ==
    LET Any(signal) ==
            Cardinality({j \in DOMAIN regression_analysis.alerts :
                            regression_analysis.alerts[j].signal = signal})
    IN  IF regression_analysis.kind = "analysis"
           /\ regression_analysis.alerts # <<>>
        THEN Any("BUY") * 4 - Any("SELL") * 4
        ELSE 0

\* Component 6, the traditional regression signals: four points for each tier-1
\* BUY alert of the analysis and minus four for each tier-1 SELL alert, 0 when
\* the analysis is None or has no alerts.
RegressionAdjustment(regression_analysis) ==
    LET Tier1(signal) ==
            Cardinality({j \in DOMAIN regression_analysis.alerts :
                            /\ regression_analysis.alerts[j].tier = 1
                            /\ regression_analysis.alerts[j].signal = signal})
    IN  IF regression_analysis.kind = "analysis"
           /\ regression_analysis.alerts # <<>>
        THEN Tier1("BUY") * 4 - Tier1("SELL") * 4
        ELSE 0

\* The body of predict_next_season_advanced once the recent rows, the career
\* baseline and the regression analysis of the latest season are read.  The
\* result is a set of outcomes because the standard deviation of a single season
\* is NaN, max(NaN, 10) is NaN, and round() of a NaN numpy scalar either raises
\* ValueError or returns NaN, depending on the numpy version.  A NULL wRC+ next
\* to numbers is read as NaN: NaN * weight is NaN and Series.sum() and
\* Series.std() skip it, while the weights stay normalised over all the rows.  A
\* wRC+ column of NULLs only is a column of None objects, and None * weight
\* raises TypeError.
PredictionFrom(recent, career_baseline, regression_analysis) ==
    LET n == Len(recent)
        present == {i \in 1..n : ~IsNull(recent[i].row.wrc_plus)}
        m == Cardinality(present)
        wrc == [i \in 1..n |-> IF i \in present THEN recent[i].row.wrc_plus.v ELSE 0]
        \* baseline_wrc = base_n / base_d
        base_n == SeqSum([i \in 1..n |-> WeightTenths[i] * wrc[i]])
        base_d == SeqSum([i \in 1..n |-> WeightTenths[i]])
        current_age == recent[1].age
        next_age == IF Truthy(current_age) THEN Num(current_age.v + 1) ELSE NULL
        age_adj == get_age_adjustment(current_age, next_age)
        latest == recent[1].row
        discipline ==
            calculate_plate_discipline_score(latest.k_pct, latest.bb_pct,
                career_baseline.career_k_pct, career_baseline.career_bb_pct)
        power ==
            calculate_power_sustainability_score(latest.iso, latest.hr_fb_pct,
                career_baseline.career_iso, career_baseline.career_hr_fb_pct)
        contact ==
            calculate_contact_quality_score(latest.babip,
                career_baseline.career_babip, latest.iso, career_baseline.career_iso)
        skill_change == detect_skill_change([i \in 1..n |-> recent[i].row])
        skill_adj == IF skill_change.genuine_change
                     THEN (IF skill_change.improving THEN 5
                           ELSE IF skill_change.declining THEN -5 ELSE 0)
                     ELSE 0
        regression_adj == RegressionAdjustment(regression_analysis)
        \* predicted_wrc = pred_n / base_d
        pred_n == base_n + base_d * (age_adj + discipline.adj + power.adj
                                     + contact.adj + skill_adj + regression_adj)
        total_pa == SeqSum([i \in 1..n |-> recent[i].row.pa])
        \* wrc_plus.std(): sample variance var_n / var_d of the m values that are
        \* not NaN, NaN for fewer than two
        sum1 == SeqSum(wrc)
        sum2 == SeqSum([i \in 1..n |-> wrc[i] * wrc[i]])
        var_n == m * sum2 - sum1 * sum1
        var_d == m * (m - 1)
        std_is_nan == m < 2
        age_certainty == ~IsNull(current_age)
        confidence ==
            IF total_pa >= 1200 /\ ~std_is_nan /\ var_n < 225 * var_d
               /\ age_certainty THEN "HIGH"
            ELSE IF total_pa >= 600 /\ age_certainty THEN "MEDIUM"
            ELSE "LOW"
        \* prediction_std = max(wrc_std, 10): 10 only when 10 > wrc_std
        floor10 == ~std_is_nan /\ 100 * var_d > var_n
        s2n == IF floor10 THEN 100 ELSE var_n
        s2d == IF floor10 THEN 1 ELSE var_d
        predicted == RoundHalfEven(pred_n, base_d)
        \* |predicted_wrc - round(predicted_wrc)| <= 1 and prediction_std is at
        \* most the larger of 10 and the spread of the wRC+ values
        width == 12 + SeqSum([i \in 1..n |->
                                IF i \in present
                                THEN Abs(wrc[i] - wrc[CHOOSE j \in present : TRUE])
                                ELSE 0])
        Projection(range) ==
            [kind |-> "projection",
             predicted_wrc |-> predicted,
             prediction_range |-> range,
             baseline_wrc |-> RoundHalfEven(base_n, base_d),
             current_age |-> IF Truthy(current_age) THEN current_age ELSE NULL,
             next_age |-> IF Truthy(next_age) THEN next_age ELSE NULL,
             age_adjustment |-> age_adj,
             discipline_adjustment |-> discipline.adj,
             power_adjustment |-> power.adj,
             contact_adjustment |-> contact.adj,
             skill_change_adjustment |-> skill_adj,
             regression_adjustment |-> regression_adj,
             power_flags |-> power.flags,
             contact_type |-> contact.type,
             skill_change |-> skill_change,
             discipline_confidence |-> discipline.confidence,
             confidence |-> confidence,
             sample_size_pa |-> total_pa,
             recent_seasons |-> n]
    IN  IF m = 0 THEN {Raised("TypeError")}
        ELSE IF std_is_nan
        THEN {Raised("ValueError"), Projection(<<NAN, NAN>>)}
        ELSE \* the operands of the two roundings are evaluated once here
             {Projection(<<Num(RoundLower(pn, pd, vn, vd, centre, w)),
                           Num(RoundUpper(pn, pd, vn, vd, centre, w))>>) :
                 pn \in {pred_n}, pd \in {base_d}, vn \in {s2n}, vd \in {s2d},
                 centre \in {predicted}, w \in {width}}

\* The outcomes of predict_next_season_advanced of the predictor whose detector
\* has the table self_league_averages: None, a Projection, or an exception.
\* Each read of the database is made once and its value named.
predict_next_season_advanced_on(self_league_averages, player_id, current_season) ==
    UNION {
        IF recent = <<>> THEN {None}
        ELSE IF career_baseline.kind = "None" THEN {None}
        ELSE UNION {PredictionFrom(recent, career_baseline, regression_analysis) :
                       regression_analysis \in
                           {analyze_player_season_on(self_league_averages,
                                                     player_id, recent[1].season)}}
        : recent \in {RecentRows(player_id, current_season)},
          career_baseline \in {get_player_career_baseline(player_id, current_season)}}

\* predict_next_season_advanced of the long-lived predictor, whose detector is
\* the long-lived detector.
predict_next_season_advanced(player_id, current_season) ==
    predict_next_season_advanced_on(league_averages, player_id, current_season)

\* ------------------------------------------- StatcastRegressionDetector

\* A statcast_data row: exit velocity in tenths of a mph, hard-hit% and
\* barrel% in tenths of a point, xwOBA in thousandths, batted balls in units.
StatcastRow(exit_velo, hard_hit_pct, barrel_pct, xwoba, batted_balls) ==
    [kind |-> "row", exit_velo |-> exit_velo, hard_hit_pct |-> hard_hit_pct,
     barrel_pct |-> barrel_pct, xwoba |-> xwoba, batted_balls |-> batted_balls]

\* The statcast_data row of (player_id, season), NoRow when there is none.
StatcastRowOf(player_id, season) ==
    IF player_id \in StoredPlayers THEN statcast_data[season]
    ELSE IF player_id \in DOMAIN others THEN others[player_id].statcast_data[season]
    ELSE NoRow

\* float(x) if x else None: NULL and 0 both become None.
FloatOrNone(x) == IF Truthy(x) THEN x ELSE NULL
FloatOrNoneRat(r) == IF TruthyRat(r) THEN r ELSE RNULL

get_statcast_data(player_id, season) ==
    IF season \in Seasons /\ StatcastRowOf(player_id, season).kind = "row"
    THEN LET row == StatcastRowOf(player_id, season)
         IN  [kind |-> "statcast",
              exit_velo |-> FloatOrNone(row.exit_velo),
              hard_hit_pct |-> FloatOrNone(row.hard_hit_pct),
              barrel_pct |-> FloatOrNone(row.barrel_pct),
              xwoba |-> FloatOrNone(row.xwoba),
              batted_balls |-> FloatOrNone(row.batted_balls)]
    ELSE None

\* SQL AVG(col) over the statcast rows of the seasons of Q.
StatcastAvg(player_id, Q, col) ==
    LET present == {s \in Q : ~IsNull(StatcastRowOf(player_id, s)[col])}
    IN  IF present = {} THEN RNULL
        ELSE Rat(SetSum(present, [s \in present |-> StatcastRowOf(player_id, s)[col].v]),
                 Cardinality(present))

\* The averages over the statcast rows before current_season with at least 50
\* batted balls, None with fewer than two such rows.
get_career_statcast_baseline(player_id, current_season) ==
    LET Q == {s \in Seasons : /\ s < current_season
                              /\ StatcastRowOf(player_id, s).kind = "row"
                              /\ ~IsNull(StatcastRowOf(player_id, s).batted_balls)
                              /\ StatcastRowOf(player_id, s).batted_balls.v >= 50}
    IN  IF Cardinality(Q) >= 2
        THEN [kind |-> "statcast_baseline",
              career_exit_velo |-> FloatOrNoneRat(StatcastAvg(player_id, Q, "exit_velo")),
              career_hard_hit_pct |-> FloatOrNoneRat(StatcastAvg(player_id, Q, "hard_hit_pct")),
              career_barrel_pct |-> FloatOrNoneRat(StatcastAvg(player_id, Q, "barrel_pct")),
              seasons |-> Cardinality(Q)]
        ELSE None

\* current - career for a number and a rational, as a numerator over career.d.
DeltaNum(current, career) == current.v * career.d - career.n

StatcastAlert(signal, tier, metric, confidence) ==
    [kind |-> "alert", signal |-> signal, tier |-> tier, metric |-> metric,
     confidence |-> confidence]

\* career_baseline here is the career baseline updated with the Statcast
\* baseline; a key the update did not add reads as None.
detect_lucky_vs_unlucky(current_stats, statcast_data_, career_baseline) ==
    LET current_babip == current_stats.babip
        career_babip == career_baseline.career_babip
        hard_hit_pct == statcast_data_.hard_hit_pct
        career_hard_hit == career_baseline.career_hard_hit_pct
    IN  IF ~(/\ Truthy(current_babip) /\ TruthyRat(career_babip)
             /\ Truthy(hard_hit_pct) /\ TruthyRat(career_hard_hit))
        THEN NoAlert
        ELSE LET babip_delta == DeltaNum(current_babip, career_babip)
                 hard_hit_delta == DeltaNum(hard_hit_pct, career_hard_hit)
             IN  IF /\ babip_delta < -40 * career_babip.d
                    /\ hard_hit_delta > 20 * career_hard_hit.d
                 THEN StatcastAlert("BUY", 1, "STATCAST_UNLUCKY", "HIGH")
                 ELSE IF /\ babip_delta > 40 * career_babip.d
                         /\ hard_hit_delta < -20 * career_hard_hit.d
                 THEN StatcastAlert("SELL", 1, "STATCAST_LUCKY", "HIGH")
                 ELSE NoAlert

detect_power_sustainability(current_stats, statcast_data_, career_baseline) ==
    LET current_iso == current_stats.iso
        career_iso == career_baseline.career_iso
        exit_velo == statcast_data_.exit_velo
        career_exit_velo == career_baseline.career_exit_velo
        barrel_pct == statcast_data_.barrel_pct
        career_barrel_pct == career_baseline.career_barrel_pct
    IN  IF ~(/\ Truthy(current_iso) /\ TruthyRat(career_iso)
             /\ Truthy(exit_velo) /\ TruthyRat(career_exit_velo)
             /\ Truthy(barrel_pct) /\ TruthyRat(career_barrel_pct))
        THEN NoAlert
        ELSE LET iso_delta == DeltaNum(current_iso, career_iso)
                 ev_delta == DeltaNum(exit_velo, career_exit_velo)
                 barrel_delta == DeltaNum(barrel_pct, career_barrel_pct)
             IN  IF /\ iso_delta > 60 * career_iso.d
                    /\ ev_delta < 0
                    /\ barrel_delta < 0
                 THEN StatcastAlert("SELL", 1, "UNSUSTAINABLE_POWER", "HIGH")
                 ELSE IF /\ iso_delta < -50 * career_iso.d
                         /\ ev_delta > 0
                         /\ barrel_delta > 10 * career_barrel_pct.d
                 THEN StatcastAlert("BUY", 1, "UNLUCKY_POWER", "HIGH")
                 ELSE NoAlert

\* Called with the Statcast baseline itself, which may be None.
detect_exit_velo_decline(statcast_data_, statcast_baseline) ==
    IF statcast_baseline.kind = "None" THEN NoAlert
    ELSE LET exit_velo == statcast_data_.exit_velo
             career_exit_velo == statcast_baseline.career_exit_velo
         IN  IF ~Truthy(exit_velo) \/ ~TruthyRat(career_exit_velo) THEN NoAlert
             ELSE IF DeltaNum(exit_velo, career_exit_velo) < -20 * career_exit_velo.d
             THEN StatcastAlert("SELL", 2, "EV_DECLINE", "MEDIUM")
             ELSE NoAlert

detect_expected_stats_divergence(current_stats, statcast_data_) ==
    LET current_woba == current_stats.woba
        xwoba == statcast_data_.xwoba
    IN  IF ~(Truthy(current_woba) /\ Truthy(xwoba)) THEN NoAlert
        ELSE LET woba_diff == current_woba.v - xwoba.v
             IN  IF woba_diff < -20
                 THEN StatcastAlert("BUY", 2, "XWOBA_UNLUCKY", "MEDIUM")
                 ELSE IF woba_diff > 20
                 THEN StatcastAlert("SELL", 2, "XWOBA_LUCKY", "MEDIUM")
                 ELSE NoAlert

\* len([a for a in all_alerts if a['tier'] == tier and a['signal'] == signal])
CountTierSignal(all_alerts, tier, signal) ==
    Cardinality({i \in DOMAIN all_alerts :
                    all_alerts[i].tier = tier /\ all_alerts[i].signal = signal})

\* Mutant: the Statcast alerts are put in front of the traditional ones.
CombineAlerts_front(traditional_alerts, statcast_alerts) ==
    statcast_alerts \o traditional_alerts

\* all_alerts = traditional_analysis['alerts'] + statcast_alerts
CombineAlerts(traditional_alerts, statcast_alerts) ==
    traditional_alerts \o statcast_alerts

\* Mutant: tier-2 alerts count in full.
NetScoreHalves_full(tier1_buys, tier1_sells, tier2_buys, tier2_sells) ==
    2 * (tier1_buys - tier1_sells) + 2 * (tier2_buys - tier2_sells)

\* net_score = (tier1_buys - tier1_sells) + (tier2_buys - tier2_sells) * 0.5,
\* in halves.
NetScoreHalves(tier1_buys, tier1_sells, tier2_buys, tier2_sells) ==
    2 * (tier1_buys - tier1_sells) + (tier2_buys - tier2_sells)

\* career_baseline.update(statcast_baseline): the Statcast keys are None until
\* the update adds them.
UpdatedBaseline(career_baseline, statcast_baseline) ==
    [career_babip |-> career_baseline.career_babip,
     career_iso |-> career_baseline.career_iso,
     career_exit_velo |-> IF statcast_baseline.kind = "None" THEN RNULL
                          ELSE statcast_baseline.career_exit_velo,
     career_hard_hit_pct |-> IF statcast_baseline.kind = "None" THEN RNULL
                             ELSE statcast_baseline.career_hard_hit_pct,
     career_barrel_pct |-> IF statcast_baseline.kind = "None" THEN RNULL
                           ELSE statcast_baseline.career_barrel_pct]

\* What analyze_player_season_with_statcast returns from the traditional
\* analysis, the Statcast row and baseline, the season row it has fetched again
\* and the career baseline after update().
StatcastAnalysisFrom(player_id, season, traditional_analysis, statcast_data_, statcast_baseline, row, career_baseline) ==
    LET current_stats == [babip |-> FloatOrNone(row.babip),
                          iso |-> FloatOrNone(row.iso),
                          woba |-> FloatOrNone(row.woba)]
        s1 == AppendAlert(<<>>, detect_lucky_vs_unlucky(current_stats, statcast_data_, career_baseline))
        s2 == AppendAlert(s1, detect_power_sustainability(current_stats, statcast_data_, career_baseline))
        s3 == AppendAlert(s2, detect_exit_velo_decline(statcast_data_, statcast_baseline))
        statcast_alerts == AppendAlert(s3, detect_expected_stats_divergence(current_stats, statcast_data_))
        all_alerts == CombineAlerts(traditional_analysis.alerts, statcast_alerts)
        tier1_buys == CountTierSignal(all_alerts, 1, "BUY")
        tier1_sells == CountTierSignal(all_alerts, 1, "SELL")
        tier2_buys == CountTierSignal(all_alerts, 2, "BUY")
        tier2_sells == CountTierSignal(all_alerts, 2, "SELL")
    IN  [kind |-> "statcast_analysis",
         player_id |-> player_id,
         season |-> season,
         alerts |-> all_alerts,
         net_score_halves |-> NetScoreHalves(tier1_buys, tier1_sells, tier2_buys, tier2_sells),
         tier1_buys |-> tier1_buys,
         tier1_sells |-> tier1_sells,
         tier2_buys |-> tier2_buys,
         tier2_sells |-> tier2_sells,
         has_statcast |-> TRUE,
         statcast_data |-> statcast_data_]

analyze_player_season_with_statcast(player_id, season) ==
    LET traditional_analysis == analyze_player_season(player_id, season)
        statcast_data_ == get_statcast_data(player_id, season)
    IN
    IF traditional_analysis.kind = "None" THEN None
    ELSE IF statcast_data_.kind = "None" THEN traditional_analysis
    ELSE
    LET statcast_baseline == get_career_statcast_baseline(player_id, season)
    IN  StatcastAnalysisFrom(player_id, season, traditional_analysis,
            statcast_data_, statcast_baseline, RowOf(player_id, season),
            UpdatedBaseline(get_player_career_baseline(player_id, season),
                            statcast_baseline))

\* ------------------------------------------------ the store specification

\* No call made yet / the pending call has not run yet.
Idle == [op |-> "idle"]
NotRun == [kind |-> "notrun"]

EmptyStore == [s \in Seasons |-> NoRow]

\* No other player, an empty league_averages table, no call in progress.
NoOthers == <<>>
NoLeagueRows == <<>>
NoThreads == <<>>

Init ==
    /\ season_stats = EmptyStore
    /\ statcast_data = EmptyStore
    /\ others = NoOthers
    /\ birth_year = NULL
    /\ league_averages = NoLeagueRows
    /\ threads = NoThreads
    /\ call = Idle
    /\ result = NotRun

\* The loader writes one season row: INSERT, or UPDATE when the season has one.
insert_season_stats(season, row) ==
    /\ season_stats' = [season_stats EXCEPT ![season] = row]
    /\ call' = Idle
    /\ result' = NotRun
    /\ UNCHANGED <<statcast_data, others, birth_year, league_averages, threads>>

\* The calls are made one at a time by a sequential caller: a call starts when
\* none is recorded, and the next write to the store clears the record.
AnalyzePlayerSeason(player_id, season) ==
    /\ call = Idle
    /\ call' = [op |-> "analyze_player_season", player_id |-> player_id,
                season |-> season]
    /\ result' = analyze_player_season(player_id, season)
    /\ UNCHANGED <<season_stats, statcast_data, others, birth_year,
                   league_averages, threads>>

\* The birth years add_birth_dates may set, and the current_season arguments.
BirthYears == {1984, 1997}
PredictSeasons == Seasons \cup {CurrentSeason + 1}

\* UPDATE players SET birth_date = :birth_date for the stored player.
add_birth_dates(year) ==
    /\ birth_year' = Num(year)
    /\ call' = Idle
    /\ result' = NotRun
    /\ UNCHANGED <<season_stats, statcast_data, others, league_averages, threads>>

PredictNextSeasonAdvanced(player_id, current_season) ==
    /\ call = Idle
    /\ call' = [op |-> "predict_next_season_advanced", player_id |-> player_id,
                season |-> current_season]
    /\ result' \in predict_next_season_advanced(player_id, current_season)
    /\ UNCHANGED <<season_stats, statcast_data, others, birth_year,
                   league_averages, threads>>

Next ==
    \/ \E season \in Seasons, row \in RowCatalogue : insert_season_stats(season, row)
    \/ \E year \in BirthYears : add_birth_dates(year)
    \/ \E player_id \in PlayerIds, season \in Seasons :
           AnalyzePlayerSeason(player_id, season)
    \/ \E player_id \in PlayerIds, current_season \in PredictSeasons :
           PredictNextSeasonAdvanced(player_id, current_season)

Spec == Init /\ [][Next]_vars

\* ------------------------------------- the detectors as pure functions

\* Largest rate value and largest number of averaged seasons tried.
MaxRate == 85
MaxDen == 2

CurrentValues == {NULL} \cup {Num(x) : x \in 0..MaxRate}

CareerValues ==
    {RNULL} \cup UNION {{Rat(n, d) : n \in 0..(MaxRate * d)} : d \in 1..MaxDen}

DetectorOps ==
    {"detect_babip_regression", "detect_k_rate_regression",
     "detect_bb_rate_regression", "detect_iso_regression",
     "detect_hr_fb_regression"}

InitDetect ==
    /\ season_stats = EmptyStore
    /\ statcast_data = EmptyStore
    /\ others = NoOthers
    /\ birth_year = NULL
    /\ league_averages = NoLeagueRows
    /\ threads = NoThreads
    /\ call \in {[op |-> o, current |-> c, career |-> k] :
                    o \in DetectorOps, c \in CurrentValues, k \in CareerValues}
    /\ result = NotRun

DetectBabipRegression ==
    /\ call.op = "detect_babip_regression"
    /\ result = NotRun
    /\ result' =
           detect_babip_regression(call.current, call.career)
    /\ UNCHANGED <<season_stats, statcast_data, others, birth_year,
                   league_averages, threads, call>>

DetectKRateRegression ==
    /\ call.op = "detect_k_rate_regression"
    /\ result = NotRun
    /\ result' =
           detect_k_rate_regression(call.current, call.career)
    /\ UNCHANGED <<season_stats, statcast_data, others, birth_year,
                   league_averages, threads, call>>

DetectBbRateRegression ==
    /\ call.op = "detect_bb_rate_regression"
    /\ result = NotRun
    /\ result' =
           detect_bb_rate_regression(call.current, call.career)
    /\ UNCHANGED <<season_stats, statcast_data, others, birth_year,
                   league_averages, threads, call>>

DetectIsoRegression ==
    /\ call.op = "detect_iso_regression"
    /\ result = NotRun
    /\ result' =
           detect_iso_regression(call.current, call.career)
    /\ UNCHANGED <<season_stats, statcast_data, others, birth_year,
                   league_averages, threads, call>>

DetectHrFbRegression ==
    /\ call.op = "detect_hr_fb_regression"
    /\ result = NotRun
    /\ result' =
           detect_hr_fb_regression(call.current, call.career)
    /\ UNCHANGED <<season_stats, statcast_data, others, birth_year,
                   league_averages, threads, call>>

NextDetect ==
    \/ DetectBabipRegression
    \/ DetectKRateRegression
    \/ DetectBbRateRegression
    \/ DetectIsoRegression
    \/ DetectHrFbRegression

SpecDetect == InitDetect /\ [][NextDetect]_vars

\* ------------------------------------ classify_season as a pure function

\* Largest games played, plate appearances and team games tried.
MaxGames == 20
MaxPA == 80
MaxTeamGames == 20

RoleInputs ==
    {<<g, pa, tg>> : g \in 0..MaxGames, pa \in 0..MaxPA, tg \in (-1)..MaxTeamGames}
        \cup {<<150, 620, 162>>}

InitRole ==
    /\ season_stats = EmptyStore
    /\ statcast_data = EmptyStore
    /\ others = NoOthers
    /\ birth_year = NULL
    /\ league_averages = NoLeagueRows
    /\ threads = NoThreads
    /\ call \in {[op |-> "classify_season", games_played |-> x[1], pa |-> x[2],
                  team_games |-> x[3]] : x \in RoleInputs}
    /\ result = NotRun

ClassifySeason ==
    /\ call.op = "classify_season"
    /\ result = NotRun
    /\ result' =
           classify_season(call.games_played, call.pa, call.team_games)
    /\ UNCHANGED <<season_stats, statcast_data, others, birth_year,
                   league_averages, threads, call>>

NextRole == ClassifySeason

SpecRole == InitRole /\ [][NextRole]_vars

\* ------------------------------- the Statcast analysis on a Statcast store

\* The season rows and the Statcast rows of this specification.  Every season
\* has one of two season rows, which are a tier 1 apart in BABIP, BB%, ISO and
\* HR/FB% and a tier 3 apart in K%; the Statcast rows are a middle one, one above
\* it, one below it with fewer than 50 batted balls, and one with NULL and zero
\* metrics.
StatcastSeasonRows ==
    { Row(450, Num(101), Num(325), Num(185), Num(0),   Num(190), Num(200), Num(321)),
      Row(150, Num(119), Num(260), Num(200), Num(120), Num(110), Num(90),  Num(340)) }

StatcastCatalogue ==
    { StatcastRow(Num(900), Num(400), Num(80), Num(340), Num(200)),
      StatcastRow(Num(925), Num(430), Num(95), Num(365), Num(120)),
      StatcastRow(Num(875), Num(370), Num(60), Num(290), Num(49)),
      StatcastRow(NULL,     Num(0),   NULL,    NULL,     Num(60)) }

InitStatcast ==
    /\ season_stats \in [Seasons -> StatcastSeasonRows]
    /\ statcast_data = EmptyStore
    /\ others = NoOthers
    /\ birth_year = NULL
    /\ league_averages = calculate_league_averages
    /\ threads = NoThreads
    /\ call = Idle
    /\ result = NotRun

\* INSERT ... ON CONFLICT (player_id, season) DO UPDATE for the stored player.
insert_statcast_data(season, metrics) ==
    /\ statcast_data' = [statcast_data EXCEPT ![season] = metrics]
    /\ call' = Idle
    /\ result' = NotRun
    /\ UNCHANGED <<season_stats, others, birth_year, league_averages, threads>>

AnalyzePlayerSeasonWithStatcast(player_id, season) ==
    /\ call = Idle
    /\ call' = [op |-> "analyze_player_season_with_statcast",
                player_id |-> player_id, season |-> season]
    /\ result' = analyze_player_season_with_statcast(player_id, season)
    /\ UNCHANGED <<season_stats, statcast_data, others, birth_year,
                   league_averages, threads>>

NextStatcast ==
    \/ \E season \in Seasons, metrics \in StatcastCatalogue :
           insert_statcast_data(season, metrics)
    \/ \E player_id \in PlayerIds, season \in Seasons :
           AnalyzePlayerSeasonWithStatcast(player_id, season)

SpecStatcast == InitStatcast /\ [][NextStatcast]_vars

\* ------------------------------------------------------- the batch scans

\* SELECT DISTINCT player_id ... WHERE season = :season AND pa >= :min_pa.
SelectedPlayers(season, min_pa) ==
    {p \in AllPlayers : HasRow(p, season) /\ RowOf(p, season).pa >= min_pa}

\* The orders in which the query may hand back the rows of S.
Orders(S) ==
    {q \in [1..Cardinality(S) -> S] :
        \A i, j \in 1..Cardinality(S) : q[i] = q[j] => i = j}

\* d[key] on a Python dict raises KeyError unless the dict has the key.
HasKey(d, key) == key \in DOMAIN d

\* A scan that came to the end of its list, and one that an exception ended
\* after the players of `analysed` (the last of them raised it).
ScanResult(op, analysed, results) ==
    [kind |-> "scan", op |-> op, analysed |-> analysed, results |-> results]

ScanAborted(op, error, analysed) ==
    [kind |-> "raised", op |-> op, error |-> error, analysed |-> analysed]

\* The loop of scan_all_current_season from position i on, and its body for the
\* analysis of player_ids[i].
RECURSIVE scan_all_loop(_, _, _, _), scan_all_body(_, _, _, _, _)
scan_all_loop(player_ids, season, i, results) ==
    IF i > Len(player_ids)
    THEN ScanResult("scan_all_current_season", player_ids, results)
    ELSE scan_all_body(player_ids, season, i, results,
                       analyze_player_season(player_ids[i], season))

scan_all_body(player_ids, season, i, results, analysis) ==
    IF analysis.kind # "None" /\ analysis.alert_count > 0
    THEN scan_all_loop(player_ids, season, i + 1, Append(results, analysis))
    ELSE scan_all_loop(player_ids, season, i + 1, results)

scan_all_current_season(player_ids, season) ==
    scan_all_loop(player_ids, season, 1, <<>>)

\* list.sort(key = net_score): a stable insertion of x into the sorted list.
RECURSIVE InsertByNetScore(_, _, _)
InsertByNetScore(sorted, x, reverse) ==
    IF sorted = <<>> THEN <<x>>
    ELSE LET last == sorted[Len(sorted)]
             after == IF reverse
                      THEN last.net_score_halves >= x.net_score_halves
                      ELSE last.net_score_halves <= x.net_score_halves
         IN  IF after THEN Append(sorted, x)
             ELSE Append(InsertByNetScore(SubSeq(sorted, 1, Len(sorted) - 1),
                                          x, reverse), last)

RECURSIVE SortByNetScore(_, _)
SortByNetScore(list, reverse) ==
    IF list = <<>> THEN <<>>
    ELSE InsertByNetScore(SortByNetScore(SubSeq(list, 1, Len(list) - 1), reverse),
                          list[Len(list)], reverse)

\* The loop of generate_statcast_report from position i on, and its body for
\* the analysis of players[i].  analysis['net_score'] (kept in halves as
\* net_score_halves) is read for every analysis with alerts.
RECURSIVE statcast_report_loop(_, _, _, _, _), statcast_report_body(_, _, _, _, _, _)
statcast_report_loop(players, season, i, buy_candidates, sell_candidates) ==
    IF i > Len(players)
    THEN ScanResult("generate_statcast_report", players,
                    [sell_candidates |-> SortByNetScore(sell_candidates, FALSE),
                     buy_candidates |-> SortByNetScore(buy_candidates, TRUE)])
    ELSE statcast_report_body(players, season, i, buy_candidates, sell_candidates,
             analyze_player_season_with_statcast(players[i], season))

statcast_report_body(players, season, i, buy_candidates, sell_candidates, analysis) ==
    IF analysis.kind # "None" /\ analysis.alerts # <<>>
    THEN IF ~HasKey(analysis, "net_score_halves")
         THEN ScanAborted("generate_statcast_report", "KeyError",
                          SubSeq(players, 1, i))
         ELSE statcast_report_loop(players, season, i + 1,
                  IF analysis.net_score_halves >= 4
                  THEN Append(buy_candidates, analysis) ELSE buy_candidates,
                  IF analysis.net_score_halves <= -4
                  THEN Append(sell_candidates, analysis) ELSE sell_candidates)
    ELSE statcast_report_loop(players, season, i + 1,
                              buy_candidates, sell_candidates)

generate_statcast_report(players, season) ==
    statcast_report_loop(players, season, 1, <<>>, <<>>)

\* The loop of the dashboard's load_regression_signals from position i on, and
\* its body for the analysis of players[i]: it reads net_score, tier1_buys and
\* tier1_sells of RegressionDetector's analysis.
RECURSIVE load_signals_loop(_, _, _, _), load_signals_body(_, _, _, _, _)
load_signals_loop(players, season, i, results) ==
    IF i > Len(players)
    THEN ScanResult("load_regression_signals", players, results)
    ELSE load_signals_body(players, season, i, results,
                           analyze_player_season(players[i], season))

load_signals_body(players, season, i, results, analysis) ==
    IF analysis.kind # "None" /\ analysis.alerts # <<>>
    THEN IF \/ ~HasKey(analysis, "net_score_halves")
            \/ ~HasKey(analysis, "tier1_buys")
            \/ ~HasKey(analysis, "tier1_sells")
         THEN ScanAborted("load_regression_signals", "KeyError",
                          SubSeq(players, 1, i))
         ELSE load_signals_loop(players, season, i + 1,
                  Append(results,
                         [player_id |-> players[i],
                          net_score_halves |-> analysis.net_score_halves,
                          tier1_buys |-> analysis.tier1_buys,
                          tier1_sells |-> analysis.tier1_sells,
                          alerts |-> analysis.alerts]))
    ELSE load_signals_loop(players, season, i + 1, results)

load_regression_signals(players, season) ==
    load_signals_loop(players, season, 1, <<>>)

\* ------------------------------------------- the batch scans over many players

\* The other players of this specification and what the store holds for each:
\* the same season row in every earlier season and one row in the scanned
\* season, with or without Statcast rows.
OtherPlayers == {3, 4}

Profile(prior, current, statcast) ==
    [season_stats |-> [s \in Seasons |-> IF s = CurrentSeason THEN current ELSE prior],
     statcast_data |-> [s \in Seasons |-> statcast]]

ProfileCatalogue ==
    LET steady == Row(150, Num(100), Num(310), Num(200), Num(80),  Num(150), Num(120), Num(320))
        low    == Row(150, Num(119), Num(260), Num(250), Num(120), Num(110), Num(90),  Num(340))
        high   == Row(450, Num(101), Num(325), Num(185), Num(0),   Num(190), Num(200), Num(321))
        short  == Row(60,  NULL,     NULL,     NULL,     Num(95),  Num(175), NULL,     NULL)
        balls  == StatcastRow(Num(900), Num(400), Num(80), Num(340), Num(200))
    IN  { Profile(NoRow,  low,    NoRow),     \* no career baseline: analysis None
          Profile(steady, steady, NoRow),     \* an analysis without alerts
          Profile(high,   low,    NoRow),     \* alerts, no Statcast row
          Profile(high,   low,    balls),     \* alerts and Statcast rows
          Profile(high,   short,  NoRow) }    \* fewer than 100 PA: not selected

ScanSeasonRows == {r \in RowCatalogue : r.babip \in {Num(325), Num(260)}}

InitScan ==
    /\ season_stats \in [Seasons -> ScanSeasonRows]
    /\ statcast_data = EmptyStore
    /\ others \in [OtherPlayers -> ProfileCatalogue]
    /\ birth_year = NULL
    /\ league_averages = calculate_league_averages
    /\ threads = NoThreads
    /\ call = Idle
    /\ result = NotRun

ScanAllCurrentSeason(player_ids) ==
    /\ call' = [op |-> "scan_all_current_season", players |-> player_ids]
    /\ result' = scan_all_current_season(player_ids, CurrentSeason)
    /\ UNCHANGED <<season_stats, statcast_data, others, birth_year,
                   league_averages, threads>>

GenerateStatcastReport(players) ==
    /\ call' = [op |-> "generate_statcast_report", players |-> players]
    /\ result' = generate_statcast_report(players, CurrentSeason)
    /\ UNCHANGED <<season_stats, statcast_data, others, birth_year,
                   league_averages, threads>>

LoadRegressionSignals(players) ==
    /\ call' = [op |-> "load_regression_signals", players |-> players]
    /\ result' = load_regression_signals(players, CurrentSeason)
    /\ UNCHANGED <<season_stats, statcast_data, others, birth_year,
                   league_averages, threads>>

NextScan ==
    \/ \E player_ids \in Orders(SelectedPlayers(CurrentSeason, 100)) :
           ScanAllCurrentSeason(player_ids)
    \/ \E players \in Orders(SelectedPlayers(CurrentSeason, 100)) :
           GenerateStatcastReport(players)
    \/ \E players \in Orders(SelectedPlayers(CurrentSeason, 100)) :
           LoadRegressionSignals(players)

SpecScan == InitScan /\ [][NextScan]_vars

\* ------------------------------------------------ a store with NULL rate stats

\* The season rows of this specification: a full row, the same row with a NULL
\* wRC+ (at least 100 PA, so the predictor reads it as a recent season), a short
\* season with NULL wRC+, BABIP, K% and HR/FB%, and a long season.
NullSeasonRows ==
    { Row(150, Num(120), Num(310), Num(200), Num(80),  Num(150), Num(120), Num(320)),
      Row(150, NULL,     Num(310), Num(200), Num(80),  Num(150), Num(120), Num(320)),
      Row(60,  NULL,     NULL,     NULL,     Num(95),  Num(175), NULL,     NULL),
      Row(450, Num(101), Num(325), Num(185), Num(0),   Num(190), Num(200), Num(321)) }

InitNull ==
    /\ season_stats \in [Seasons -> NullSeasonRows]
    /\ statcast_data = EmptyStore
    /\ others = NoOthers
    /\ birth_year = NULL
    /\ league_averages = calculate_league_averages
    /\ threads = NoThreads
    /\ call = Idle
    /\ result = NotRun

NextNull ==
    \/ \E player_id \in PlayerIds, season \in Seasons :
           AnalyzePlayerSeason(player_id, season)
    \/ \E player_id \in PlayerIds, current_season \in PredictSeasons :
           PredictNextSeasonAdvanced(player_id, current_season)

SpecNull == InitNull /\ [][NextNull]_vars

\* ------------------------------------------ a long-lived detector and predictor

\* The season rows the loader writes in this specification.
FreshSeasonRows == {r \in RowCatalogue : r.babip \in {Num(325), Num(260)}}

\* RegressionDetector(): the new detector reads the league table from the store
\* as it is now and takes the place of the long-lived one.
RegressionDetector ==
    /\ league_averages' = calculate_league_averages
    /\ call' = Idle
    /\ result' = NotRun
    /\ UNCHANGED <<season_stats, statcast_data, others, birth_year, threads>>

NextFresh ==
    \/ \E season \in Seasons, row \in FreshSeasonRows :
           insert_season_stats(season, row)
    \/ RegressionDetector
    \/ \E player_id \in PlayerIds, season \in Seasons :
           AnalyzePlayerSeason(player_id, season)
    \/ \E player_id \in PlayerIds, current_season \in PredictSeasons :
           PredictNextSeasonAdvanced(player_id, current_season)

SpecFresh == Init /\ [][NextFresh]_vars

\* ------------------------------------------------------- LeagueBaselines

\* The player ids of Q, those with the smallest value of the column first.
RECURSIVE OrderByColumn(_, _, _)
OrderByColumn(Q, season, metric) ==
    IF Q = {} THEN <<>>
    ELSE LET p == CHOOSE x \in Q :
                      \A y \in Q : RowOf(x, season)[metric].v <= RowOf(y, season)[metric].v
         IN  <<p>> \o OrderByColumn(Q \ {p}, season, metric)

\* Mutant: the quantile is the value after the position, not interpolated.
Quantile_higher(x, p) ==
    LET h == (Len(x) - 1) * p
        lo == (h \div 100) + 1
        hi == IF lo < Len(x) THEN lo + 1 ELSE lo
    IN  Rat(x[hi] * 100, 100)

\* Series.quantile(p / 100) of the sorted values x with linear interpolation:
\* position (n - 1) * p / 100 between x[lo] and the value after it, in
\* hundredths of the column's unit.
Quantile(x, p) ==
    LET h == (Len(x) - 1) * p
        lo == (h \div 100) + 1
        hi == IF lo < Len(x) THEN lo + 1 ELSE lo
        frac == h % 100
    IN  Rat(x[lo] * (100 - frac) + x[hi] * frac, 100)

\* The percentile dict of one metric over the rows Q whose value is not NULL:
\* p10 to p90, the mean, and the sample variance var_n / var_d for std (NaN for
\* a single value).
MetricPercentiles(Q, season, metric) ==
    LET ordered == OrderByColumn(Q, season, metric)
        x == [i \in DOMAIN ordered |-> RowOf(ordered[i], season)[metric].v]
        n == Len(x)
        sum1 == SeqSum(x)
        sum2 == SeqSum([i \in 1..n |-> x[i] * x[i]])
    IN  [p10 |-> Quantile(x, 10),
         p25 |-> Quantile(x, 25),
         p50 |-> Quantile(x, 50),
         p75 |-> Quantile(x, 75),
         p90 |-> Quantile(x, 90),
         mean |-> Rat(sum1, n),
         std2 |-> IF n < 2 THEN NAN ELSE Rat(n * sum2 - sum1 * sum1, n * (n - 1))]

\* The percentile dict of a metric whose column holds NULL only.
NanPercentiles ==
    [p10 |-> NAN, p25 |-> NAN, p50 |-> NAN, p75 |-> NAN, p90 |-> NAN,
     mean |-> NAN, std2 |-> NAN]

\* The metrics whose percentiles are kept: two of the ten columns of the query.
PercentileMetrics == {"babip", "k_pct"}

\* The rows of the season with pa >= min_pa and avg IS NOT NULL, by player.
LeaguePercentileRows(season, min_pa) ==
    {p \in AllPlayers : /\ HasRow(p, season)
                        /\ RowOf(p, season).pa >= min_pa
                        /\ ~IsNull(RowOf(p, season).avg)}

\* The outcomes of calculate_league_percentiles: None for an empty frame, else
\* the percentile data.  A column of NULLs only is a column of None objects,
\* whose quantile, mean and std are NaN or raise TypeError with the pandas
\* version; the numbers of the other columns skip their NULLs.
calculate_league_percentiles(season, min_pa) ==
    LET df == LeaguePercentileRows(season, min_pa)
        Present(metric) == {p \in df : ~IsNull(RowOf(p, season)[metric])}
    IN  IF df = {} THEN {None}
        ELSE {[kind |-> "percentiles",
               data |-> [metric \in PercentileMetrics |->
                            IF Present(metric) = {} THEN NanPercentiles
                            ELSE MetricPercentiles(Present(metric), season, metric)]]}
             \cup (IF \E metric \in PercentileMetrics : Present(metric) = {}
                   THEN {Raised("TypeError")} ELSE {})

\* The rows of the season with pa >= min_pa and the metric not NULL, by player.
PercentileRows(metric, season, min_pa) ==
    {p \in AllPlayers : /\ HasRow(p, season)
                        /\ RowOf(p, season).pa >= min_pa
                        /\ ~IsNull(RowOf(p, season)[metric])}

Percentile(x) == [kind |-> "percentile", value |-> x]

\* Mutant: the rows at or below the value are counted (<=).
get_player_percentile_le(value, metric, season, min_pa) ==
    LET df == PercentileRows(metric, season, min_pa)
        below == {p \in df : RowOf(p, season)[metric].v * value.d <= value.n}
    IN  IF df = {} \/ value = RNULL THEN None
        ELSE Percentile(RoundHalfEven(Cardinality(below) * 100, Cardinality(df)))

\* value is a number n / d or None; round((df[metric] < value).sum() / len(df)
\* * 100).
get_player_percentile(value, metric, season, min_pa) ==
    LET df == PercentileRows(metric, season, min_pa)
        below == {p \in df : RowOf(p, season)[metric].v * value.d < value.n}
    IN  IF df = {} \/ value = RNULL THEN None
        ELSE Percentile(RoundHalfEven(Cardinality(below) * 100, Cardinality(df)))

\* --------------------------------------------- the league rows of one season

\* A season row with the columns LeagueBaselines reads: avg and BABIP in
\* thousandths, K% in tenths of a point.
LeagueRow(pa, avg, babip, k_pct) ==
    [kind |-> "row", pa |-> pa, avg |-> avg, babip |-> babip, k_pct |-> k_pct]

\* The rows a player may have in the current season: three qualified rows with
\* different BABIP, one below 100 PA, one without avg and one without BABIP.
LeagueRowCatalogue ==
    << LeagueRow(150, Num(250), Num(300), Num(200)),
       LeagueRow(150, Num(260), Num(310), Num(200)),
       LeagueRow(450, Num(270), Num(321), Num(215)),
       LeagueRow(90,  Num(240), Num(290), Num(230)),
       LeagueRow(150, NULL,     Num(330), Num(185)),
       LeagueRow(150, Num(255), NULL,     NULL) >>

\* Largest number of players with a row in the season.
MaxLeague == 8

LeaguePlayers == 3..(MaxLeague + 2)

\* The league rows are a multiset: the players are numbered so that their rows
\* come in the order of the catalogue.  Ascending(n) is the set of such
\* numberings of the first n players.
RECURSIVE Ascending(_)
Ascending(n) ==
    IF n = 0 THEN {<<>>}
    ELSE UNION {{Append(f, c) : c \in {d \in DOMAIN LeagueRowCatalogue :
                                          n = 1 \/ f[n - 1] <= d}} :
                f \in Ascending(n - 1)}

InitPercentile ==
    /\ season_stats = EmptyStore
    /\ statcast_data = EmptyStore
    /\ \E f \in Ascending(MaxLeague) :
           others = [p \in LeaguePlayers |->
                        Profile(NoRow, LeagueRowCatalogue[f[p - 2]], NoRow)]
    /\ birth_year = NULL
    /\ league_averages = NoLeagueRows
    /\ threads = NoThreads
    /\ call = Idle
    /\ result = NotRun

\* The arguments of the calls: the season before the current one has no row.
PercentileSeasons == {CurrentSeason - 1, CurrentSeason}
MinPAs == {50, 100}
PercentileArgs == {0, 200, 290, 300, 305, 321, 340}

\* The values a caller passes: None, a number, or the p50 that
\* calculate_league_percentiles reports for the metric.
ValuesFor(metric, season, min_pa) ==
    {RNULL} \cup {Rat(v, 1) : v \in PercentileArgs}
    \cup {o.data[metric].p50 :
             o \in {x \in calculate_league_percentiles(season, min_pa) :
                       x.kind = "percentiles" /\ x.data[metric].p50.k = "num"}}

\* The store is loaded once and one call is made on it.
CalculateLeaguePercentiles(season, min_pa) ==
    /\ call = Idle
    /\ call' = [op |-> "calculate_league_percentiles", season |-> season,
                min_pa |-> min_pa]
    /\ result' \in calculate_league_percentiles(season, min_pa)
    /\ UNCHANGED <<season_stats, statcast_data, others, birth_year,
                   league_averages, threads>>

GetPlayerPercentile(value, metric, season, min_pa) ==
    /\ call = Idle
    /\ call' = [op |-> "get_player_percentile", value |-> value,
                metric |-> metric, season |-> season, min_pa |-> min_pa]
    /\ result' = get_player_percentile(value, metric, season, min_pa)
    /\ UNCHANGED <<season_stats, statcast_data, others, birth_year,
                   league_averages, threads>>

NextPercentile ==
    \/ \E season \in PercentileSeasons, min_pa \in MinPAs :
           CalculateLeaguePercentiles(season, min_pa)
    \/ /\ call = Idle
       /\ \E metric \in PercentileMetrics, season \in PercentileSeasons,
             min_pa \in MinPAs :
              \E value \in ValuesFor(metric, season, min_pa) :
                  GetPlayerPercentile(value, metric, season, min_pa)

SpecPercentile == InitPercentile /\ [][NextPercentile]_vars

\* ------------------------------------------------------------ TrendTracker

\* The seasons for which the store of the player holds a row or NoRow.
SeasonsOf(player_id) ==
    IF player_id \in StoredPlayers THEN DOMAIN season_stats
    ELSE IF player_id \in DOMAIN others
    THEN DOMAIN others[player_id].season_stats
    ELSE {}

\* The seasons of S in ascending order (ORDER BY season).
RECURSIVE OrderAsc(_)
OrderAsc(S) ==
    IF S = {} THEN <<>>
    ELSE LET m == CHOOSE x \in S : \A y \in S : x <= y
         IN  <<m>> \o OrderAsc(S \ {m})

\* get_player_career_trajectory: the rows of the player with pa >= 50 in season
\* order, None when there is none; each row with its year-over-year changes
\* (NaN in the first row) and the 3-year rolling mean of wRC+.
get_player_career_trajectory(player_id) ==
    LET Q == {t \in SeasonsOf(player_id) : /\ RowOf(player_id, t).kind = "row"
                                          /\ RowOf(player_id, t).pa >= 50}
        ordered == OrderAsc(Q)
        row(i) == RowOf(player_id, ordered[i])
        window(i) == {j \in 1..i : j > i - 3}
    IN  IF Q = {} THEN None
        ELSE [kind |-> "trajectory",
              rows |-> [i \in DOMAIN ordered |->
                  [season |-> ordered[i],
                   pa |-> row(i).pa,
                   wrc_plus |-> row(i).wrc_plus.v,
                   babip |-> row(i).babip.v,
                   yoy_wrc_plus |-> IF i = 1 THEN NAN
                                    ELSE Num(row(i).wrc_plus.v - row(i - 1).wrc_plus.v),
                   yoy_babip |-> IF i = 1 THEN NAN
                                 ELSE Num(row(i).babip.v - row(i - 1).babip.v),
                   wrc_plus_3yr |->
                       Rat(SetSum(window(i), [j \in window(i) |-> row(j).wrc_plus.v]),
                           Cardinality(window(i)))]]]

\* The rows of the sequence at the positions of I, in order (a boolean mask).
SelectRows(rows, I) ==
    LET ordered == OrderAsc(I)
    IN  [i \in DOMAIN ordered |-> rows[ordered[i]]]

\* Series.tail(n): the last n elements, all of them when there are fewer.
TailN(rows, n) ==
    IF Len(rows) <= n THEN rows ELSE SubSeq(rows, Len(rows) - n + 1, Len(rows))

\* The breakout dict from the current row and the earlier rows: the baselines
\* are the means over the last three earlier rows, kept as sum / count, and the
\* comparisons are made on the sums (BABIP in thousandths).
BreakoutFrom(current, previous, lookback) ==
    LET base == TailN(previous, lookback)
        n == Len(base)
        wrc_sum == SeqSum([i \in 1..n |-> base[i].wrc_plus])
        babip_sum == SeqSum([i \in 1..n |-> base[i].babip])
        wrc_improvement == Rat(current.wrc_plus * n - wrc_sum, n)
        babip_change == Rat(current.babip * n - babip_sum, n)
        is_breakout == /\ wrc_improvement.n >= 20 * n
                       /\ current.pa >= 400
                       /\ babip_change.n < 40 * n
    IN  [kind |-> "breakout",
         is_breakout |-> is_breakout,
         wrc_improvement |-> wrc_improvement,
         baseline_wrc |-> Rat(wrc_sum, n),
         current_wrc |-> current.wrc_plus,
         babip_change |-> babip_change,
         pa |-> current.pa,
         confidence |-> IF is_breakout /\ babip_change.n < 20 * n
                        THEN "HIGH" ELSE "MEDIUM"]

\* detect_breakout_season with the number of earlier seasons in the baseline.
BreakoutOf(trajectory, season, lookback) ==
    IF trajectory = None THEN None
    ELSE LET rows == trajectory.rows
             current == SelectRows(rows, {i \in DOMAIN rows : rows[i].season = season})
             previous == SelectRows(rows, {i \in DOMAIN rows : rows[i].season < season})
         IN  IF current = <<>> THEN None
             ELSE IF previous = <<>> THEN None
             ELSE BreakoutFrom(current[1], previous, lookback)

\* Mutant: the baseline is the mean of the last two earlier seasons.
detect_breakout_season_two(player_id, season) ==
    BreakoutOf(get_player_career_trajectory(player_id), season, 2)

detect_breakout_season(player_id, season) ==
    BreakoutOf(get_player_career_trajectory(player_id), season, 3)

\* Mutant: the index of the last row with the largest wRC+.
IdxMax_last(rows) ==
    CHOOSE i \in DOMAIN rows :
        /\ \A j \in DOMAIN rows : rows[j].wrc_plus <= rows[i].wrc_plus
        /\ \A j \in (i + 1)..Len(rows) : rows[j].wrc_plus < rows[i].wrc_plus

\* The index of the first row with the largest wRC+ (Series.idxmax).
IdxMax(rows) ==
    CHOOSE i \in DOMAIN rows :
        /\ \A j \in DOMAIN rows : rows[j].wrc_plus <= rows[i].wrc_plus
        /\ \A j \in 1..(i - 1) : rows[j].wrc_plus < rows[i].wrc_plus

\* The peak dict from the rows with pa >= 200; wrc_plus * 0.95 is compared in
\* hundredths.
PeakFrom(meaningful, peak_index) ==
    LET peak_season == meaningful[peak_index]
        latest_season == meaningful[Len(meaningful)]
    IN  [kind |-> "peak",
         peak_season |-> peak_season.season,
         peak_wrc_plus |-> peak_season.wrc_plus,
         peak_pa |-> peak_season.pa,
         current_season |-> latest_season.season,
         current_wrc_plus |-> latest_season.wrc_plus,
         at_peak |-> latest_season.wrc_plus * 100 >= peak_season.wrc_plus * 95,
         years_since_peak |-> latest_season.season - peak_season.season,
         career_seasons |-> Len(meaningful)]

PeakOf(trajectory) ==
    IF trajectory = None THEN None
    ELSE LET rows == trajectory.rows
             meaningful == SelectRows(rows, {i \in DOMAIN rows : rows[i].pa >= 200})
         IN  IF meaningful = <<>> THEN None
             ELSE PeakFrom(meaningful, IdxMax(meaningful))

identify_career_peak(player_id) ==
    PeakOf(get_player_career_trajectory(player_id))

\* ------------------------------------------------ the career of one player

\* The number of seasons of a career, and the seasons.
NumTrendSeasons == 5
TrendSeasons == (CurrentSeason + 1 - NumTrendSeasons)..CurrentSeason

\* A season row with the columns TrendTracker reads that vary here: PA, wRC+
\* and BABIP; the rows of a trajectory hold numbers in them.
TrendRow(pa, wrc_plus, babip) ==
    Row(pa, Num(wrc_plus), Num(babip), Num(200), Num(80), Num(150), Num(120), Num(320))

\* wRC+ 100, 120 and 140 are 20 apart, 114 is 95% of 120; BABIP .280, .295, .300
\* and .320 are .015, .020 and .040 apart; PA on both sides of 50, 200 and 400.
\* A season in which the player did not play 50 PA has the row with 49 PA; the
\* player without any row is the unknown player.
TrendRowCatalogue ==
    { TrendRow(450, 100, 280),
      TrendRow(550, 140, 295),
      TrendRow(400, 120, 320),
      TrendRow(199, 100, 300),
      TrendRow(200, 114, 300),
      TrendRow(49,  150, 310) }

InitTrend ==
    /\ season_stats \in [TrendSeasons -> TrendRowCatalogue]
    /\ statcast_data = EmptyStore
    /\ others = NoOthers
    /\ birth_year = NULL
    /\ league_averages = NoLeagueRows
    /\ threads = NoThreads
    /\ call = Idle
    /\ result = NotRun

\* The store is loaded once and one call is made on it.
DetectBreakoutSeason(player_id, season) ==
    /\ call = Idle
    /\ call' = [op |-> "detect_breakout_season", player_id |-> player_id,
                season |-> season]
    /\ result' = detect_breakout_season(player_id, season)
    /\ UNCHANGED <<season_stats, statcast_data, others, birth_year,
                   league_averages, threads>>

IdentifyCareerPeak(player_id) ==
    /\ call = Idle
    /\ call' = [op |-> "identify_career_peak", player_id |-> player_id]
    /\ result' = identify_career_peak(player_id)
    /\ UNCHANGED <<season_stats, statcast_data, others, birth_year,
                   league_averages, threads>>

NextTrend ==
    \/ \E player_id \in PlayerIds, season \in TrendSeasons :
           DetectBreakoutSeason(player_id, season)
    \/ \E player_id \in PlayerIds : IdentifyCareerPeak(player_id)

SpecTrend == InitTrend /\ [][NextTrend]_vars

\* ------------------------------------- concurrent calls on one detector
\* Several callers run analyze_player_season, analyze_player_season_with_statcast
\* and scan_all_current_season on one detector at the same time.  Every call has
\* its own session and its own locals; the only thing the calls share is the
\* detector, whose one field is league_averages.  A step of a thread is one
\* query or one statement of the call it runs.

ThreadIds == {1, 2}
SharedOthers == {3}

\* A thread that runs no call, with the locals of the three operations.
IdleThread ==
    [pc |-> "idle", op |-> "none", player_id |-> 0, season |-> 0,
     concurrent |-> FALSE,
     current |-> NoRow, career_baseline |-> None, league_avg |-> None,
     traditional_analysis |-> None, statcast_data_ |-> None,
     statcast_baseline |-> None, row |-> NoRow,
     player_ids |-> <<>>, i |-> 0, results |-> <<>>, result |-> NotRun]

\* Whether a call other than thread t's is in progress on the detector.
OtherInProgress(t) ==
    \E u \in ThreadIds \ {t} : threads[u].pc \notin {"idle", "done"}

\* Mutant: the lookup keeps the season's rows in the field.
LeagueAveragesAfterLookup_inplace(self_league_averages, season) ==
    [s \in DOMAIN self_league_averages \cap {season} |-> self_league_averages[s]]

\* The detector's table after self.league_averages[self.league_averages['season']
\* == season]: boolean indexing builds a new frame and leaves the table as it is.
LeagueAveragesAfterLookup(self_league_averages, season) == self_league_averages

\* return of analyze_player_season into the operation the thread runs: the
\* caller's own return, the rest of analyze_player_season_with_statcast, or the
\* body of the loop of scan_all_current_season.
ReturnAnalysis(th, analysis) ==
    CASE th.op = "analyze_player_season" ->
             [th EXCEPT !.pc = "done", !.result = analysis]
      [] th.op = "analyze_player_season_with_statcast" ->
             IF analysis.kind = "None"
             THEN [th EXCEPT !.pc = "done", !.result = None]
             ELSE [th EXCEPT !.pc = "statcast_data",
                             !.traditional_analysis = analysis]
      [] th.op = "scan_all_current_season" ->
             [th EXCEPT !.pc = "loop", !.i = th.i + 1,
                        !.results = IF analysis.kind # "None" /\ analysis.alert_count > 0
                                    THEN Append(th.results, analysis)
                                    ELSE th.results]

SharedStatcastRows ==
    { StatcastRow(Num(925), Num(430), Num(95), Num(365), Num(120)) }

\* The stored player has one season row in every earlier season and one in the
\* current season, with or without Statcast rows; the other player is one of
\* the scan's players with a career, without Statcast rows.
InitShared ==
    /\ season_stats \in {Profile(prior, current, NoRow).season_stats :
                             prior \in StatcastSeasonRows, current \in StatcastSeasonRows}
    /\ statcast_data \in {EmptyStore} \cup {[s \in Seasons |-> m] : m \in SharedStatcastRows}
    /\ others \in [SharedOthers ->
                      {pr \in ProfileCatalogue :
                          /\ pr.season_stats[CurrentSeason].pa = 150
                          /\ pr.season_stats[CurrentSeason - 1].kind = "row"
                          /\ pr.season_stats[CurrentSeason - 1].pa = 450
                          /\ pr.statcast_data[CurrentSeason].kind # "row"}]
    /\ birth_year = NULL
    /\ league_averages = calculate_league_averages
    /\ threads = [t \in ThreadIds |-> IdleThread]
    /\ call = Idle
    /\ result = NotRun

\* A caller enters one of the three operations.
BeginAnalyzePlayerSeason(t, player_id, season) ==
    /\ threads[t].pc = "idle"
    /\ threads' = [threads EXCEPT ![t] =
           [IdleThread EXCEPT !.pc = "query", !.op = "analyze_player_season",
                              !.player_id = player_id, !.season = season,
                              !.concurrent = OtherInProgress(t)]]
    /\ UNCHANGED <<season_stats, statcast_data, others, birth_year,
                   league_averages, call, result>>

BeginAnalyzePlayerSeasonWithStatcast(t, player_id, season) ==
    /\ threads[t].pc = "idle"
    /\ threads' = [threads EXCEPT ![t] =
           [IdleThread EXCEPT !.pc = "query",
                              !.op = "analyze_player_season_with_statcast",
                              !.player_id = player_id, !.season = season,
                              !.concurrent = OtherInProgress(t)]]
    /\ UNCHANGED <<season_stats, statcast_data, others, birth_year,
                   league_averages, call, result>>

BeginScanAllCurrentSeason(t, season) ==
    /\ threads[t].pc = "idle"
    /\ threads' = [threads EXCEPT ![t] =
           [IdleThread EXCEPT !.pc = "select", !.op = "scan_all_current_season",
                              !.season = season,
                              !.concurrent = OtherInProgress(t)]]
    /\ UNCHANGED <<season_stats, statcast_data, others, birth_year,
                   league_averages, call, result>>

\* scan_all_current_season: the query for the players of the season, then the
\* head of the loop.
SelectPlayers(t) ==
    /\ threads[t].pc = "select"
    /\ \E player_ids \in Orders(SelectedPlayers(threads[t].season, 100)) :
           threads' = [threads EXCEPT ![t].pc = "loop",
                                      ![t].player_ids = player_ids,
                                      ![t].i = 1]
    /\ UNCHANGED <<season_stats, statcast_data, others, birth_year,
                   league_averages, call, result>>

NextPlayer(t) ==
    /\ threads[t].pc = "loop"
    /\ threads' = [threads EXCEPT ![t] =
           LET th == threads[t] IN
           IF th.i > Len(th.player_ids)
           THEN [th EXCEPT !.pc = "done",
                          !.result = ScanResult("scan_all_current_season",
                                                th.player_ids, th.results)]
           ELSE [th EXCEPT !.pc = "query", !.player_id = th.player_ids[th.i]]]
    /\ UNCHANGED <<season_stats, statcast_data, others, birth_year,
                   league_averages, call, result>>

\* analyze_player_season: the query for the season row.
FetchSeasonRow(t) ==
    /\ threads[t].pc = "query"
    /\ threads' = [threads EXCEPT ![t] =
           LET th == threads[t] IN
           IF ~HasRow(th.player_id, th.season)
           THEN ReturnAnalysis(th, None)
           ELSE [th EXCEPT !.pc = "baseline",
                          !.current = RowOf(th.player_id, th.season)]]
    /\ UNCHANGED <<season_stats, statcast_data, others, birth_year,
                   league_averages, call, result>>

\* analyze_player_season: the query for the career baseline.
FetchCareerBaseline(t) ==
    /\ threads[t].pc = "baseline"
    /\ threads' = [threads EXCEPT ![t] =
           LET th == threads[t] IN
           IF get_player_career_baseline(th.player_id, th.season).kind = "None"
           THEN ReturnAnalysis(th, None)
           ELSE [th EXCEPT !.pc = "league_avg",
                          !.career_baseline =
                              get_player_career_baseline(th.player_id, th.season)]]
    /\ UNCHANGED <<season_stats, statcast_data, others, birth_year,
                   league_averages, call, result>>

\* analyze_player_season: the read of the detector's table.
ReadLeagueAverage(t) ==
    /\ threads[t].pc = "league_avg"
    /\ threads' = [threads EXCEPT ![t].pc = "checks",
                                  ![t].league_avg =
                                      LeagueAvgOf(league_averages, threads[t].season)]
    /\ league_averages' = LeagueAveragesAfterLookup(league_averages, threads[t].season)
    /\ UNCHANGED <<season_stats, statcast_data, others, birth_year, call, result>>

\* analyze_player_season: the five checks and the return.
RunRegressionChecks(t) ==
    /\ threads[t].pc = "checks"
    /\ threads' = [threads EXCEPT ![t] =
           LET th == threads[t] IN
           ReturnAnalysis(th, AnalysisFrom(th.player_id, th.season, th.current,
                                          th.career_baseline))]
    /\ UNCHANGED <<season_stats, statcast_data, others, birth_year,
                   league_averages, call, result>>

\* analyze_player_season_with_statcast: the Statcast row of the season.
FetchStatcastData(t) ==
    /\ threads[t].pc = "statcast_data"
    /\ threads' = [threads EXCEPT ![t] =
           LET th == threads[t] IN
           IF get_statcast_data(th.player_id, th.season).kind = "None"
           THEN [th EXCEPT !.pc = "done", !.result = th.traditional_analysis]
           ELSE [th EXCEPT !.pc = "statcast_baseline",
                          !.statcast_data_ = get_statcast_data(th.player_id, th.season)]]
    /\ UNCHANGED <<season_stats, statcast_data, others, birth_year,
                   league_averages, call, result>>

\* analyze_player_season_with_statcast: the career Statcast baseline.
FetchStatcastBaseline(t) ==
    /\ threads[t].pc = "statcast_baseline"
    /\ threads' = [threads EXCEPT ![t].pc = "current_stats",
                                  ![t].statcast_baseline =
                                      get_career_statcast_baseline(threads[t].player_id,
                                                                   threads[t].season)]
    /\ UNCHANGED <<season_stats, statcast_data, others, birth_year,
                   league_averages, call, result>>

\* analyze_player_season_with_statcast: the second query for the season row.
FetchCurrentStats(t) ==
    /\ threads[t].pc = "current_stats"
    /\ threads' = [threads EXCEPT ![t].pc = "update",
                                  ![t].row = RowOf(threads[t].player_id,
                                                   threads[t].season)]
    /\ UNCHANGED <<season_stats, statcast_data, others, birth_year,
                   league_averages, call, result>>

\* analyze_player_season_with_statcast: a new career baseline from the store and
\* update() on that dict, which is a local of the call.
UpdateCareerBaseline(t) ==
    /\ threads[t].pc = "update"
    /\ threads' = [threads EXCEPT ![t].pc = "statcast_checks",
                                  ![t].career_baseline =
                                      UpdatedBaseline(
                                          get_player_career_baseline(threads[t].player_id,
                                                                     threads[t].season),
                                          threads[t].statcast_baseline)]
    /\ UNCHANGED <<season_stats, statcast_data, others, birth_year,
                   league_averages, call, result>>

\* analyze_player_season_with_statcast: the four detectors and the return.
RunStatcastChecks(t) ==
    /\ threads[t].pc = "statcast_checks"
    /\ threads' = [threads EXCEPT ![t] =
           LET th == threads[t] IN
           [th EXCEPT !.pc = "done",
                     !.result = StatcastAnalysisFrom(th.player_id, th.season,
                                    th.traditional_analysis, th.statcast_data_,
                                    th.statcast_baseline, th.row, th.career_baseline)]]
    /\ UNCHANGED <<season_stats, statcast_data, others, birth_year,
                   league_averages, call, result>>

SharedSeasons == {CurrentSeason - 1, CurrentSeason}

NextShared ==
    \/ \E t \in ThreadIds, player_id \in StoredPlayers \cup SharedOthers,
          season \in SharedSeasons :
           BeginAnalyzePlayerSeason(t, player_id, season)
    \/ \E t \in ThreadIds, player_id \in StoredPlayers, season \in SharedSeasons :
           BeginAnalyzePlayerSeasonWithStatcast(t, player_id, season)
    \/ \E t \in ThreadIds : BeginScanAllCurrentSeason(t, CurrentSeason)
    \/ \E t \in ThreadIds : SelectPlayers(t)
    \/ \E t \in ThreadIds : NextPlayer(t)
    \/ \E t \in ThreadIds : FetchSeasonRow(t)
    \/ \E t \in ThreadIds : FetchCareerBaseline(t)
    \/ \E t \in ThreadIds : ReadLeagueAverage(t)
    \/ \E t \in ThreadIds : RunRegressionChecks(t)
    \/ \E t \in ThreadIds : FetchStatcastData(t)
    \/ \E t \in ThreadIds : FetchStatcastBaseline(t)
    \/ \E t \in ThreadIds : FetchCurrentStats(t)
    \/ \E t \in ThreadIds : UpdateCareerBaseline(t)
    \/ \E t \in ThreadIds : RunStatcastChecks(t)

SpecShared == InitShared /\ [][NextShared]_vars

\* ------------------------------------------- the predictor on three seasons
\* The predictor on a store in which every season has a row of the stored
\* player: a long first season, a season in which K% is down by 3.1 points and
\* BB% up by 1.7, a season in which they are down by exactly 3.0 and up by
\* exactly 1.6 with BABIP .050 and ISO .045 above the first, and a season of 60
\* PA that does not count as recent.

PredictRows ==
    { Row(450, Num(100), Num(300), Num(230), Num(80), Num(150), Num(120), Num(320)),
      Row(150, Num(105), Num(300), Num(199), Num(97), Num(150), Num(120), Num(320)),
      Row(150, Num(101), Num(350), Num(200), Num(96), Num(195), Num(120), Num(320)),
      Row(60,  Num(110), Num(300), Num(230), Num(80), Num(150), Num(120), Num(320)) }

InitPredict ==
    /\ season_stats \in [Seasons -> PredictRows]
    /\ statcast_data = EmptyStore
    /\ others = NoOthers
    /\ birth_year = NULL
    /\ league_averages = calculate_league_averages
    /\ threads = NoThreads
    /\ call = Idle
    /\ result = NotRun

NextPredict ==
    \/ \E year \in BirthYears : add_birth_dates(year)
    \/ \E player_id \in PlayerIds, current_season \in PredictSeasons :
           PredictNextSeasonAdvanced(player_id, current_season)

SpecPredict == InitPredict /\ [][NextPredict]_vars

\* ------------------- the predictor's scores and the Statcast rules as functions
\* One call of get_age_adjustment, of one of the three component scores or of
\* one of the four Statcast detectors, on arguments on and around the limits of
\* the rules, with None and 0 among them.

\* Oldest age tried.
MaxAge == 45

\* The ages the predictor passes (line 270-271: next_age is current_age + 1, or
\* None when current_age is None or 0), and any two ages of a player.
AgeCalls ==
    {[op |-> "get_age_adjustment", current_age |-> NULL, next_age |-> NULL],
     [op |-> "get_age_adjustment", current_age |-> Num(0), next_age |-> NULL]}
    \cup {[op |-> "get_age_adjustment", current_age |-> Num(a), next_age |-> n] :
             a \in 1..MaxAge, n \in {NULL} \cup {Num(b) : b \in 1..(MaxAge + 1)}}
    \cup {[op |-> "get_age_adjustment", current_age |-> NULL, next_age |-> Num(b)] :
             b \in 1..(MaxAge + 1)}

\* A season value and a career value: None, 0, or one of the numbers.
SeasonValues(S) == {NULL, Num(0)} \cup {Num(x) : x \in S}
CareerAverages(S) == {RNULL, Rat(0, 1)} \cup {Rat(x, 1) : x \in S}

DisciplineCalls ==
    {[op |-> "calculate_plate_discipline_score", k_pct |-> k, bb_pct |-> bb,
      career_k_pct |-> ck, career_bb_pct |-> cb] :
         k \in SeasonValues({185, 200, 215, 230}), bb \in SeasonValues({70, 80, 90, 100}),
         ck \in CareerAverages({215}), cb \in CareerAverages({80})}

PowerCalls ==
    {[op |-> "calculate_power_sustainability_score", iso |-> i, hr_fb_pct |-> h,
      career_iso |-> ci, career_hr_fb_pct |-> ch] :
         i \in SeasonValues({89, 90, 150, 210, 211}),
         h \in SeasonValues({39, 40, 120, 200, 201}),
         ci \in CareerAverages({150}), ch \in CareerAverages({120})}

ContactCalls ==
    {[op |-> "calculate_contact_quality_score", babip |-> b, career_babip |-> cb,
      iso |-> i, career_iso |-> ci] :
         b \in SeasonValues({259, 260, 300, 340, 341}),
         cb \in CareerAverages({300}),
         i \in SeasonValues({119, 120, 150, 180, 181}),
         ci \in CareerAverages({150})}

\* The dicts the Statcast detectors are given; a key a detector does not read
\* is None here.
LuckyCalls ==
    {[op |-> "detect_lucky_vs_unlucky",
      current_stats |-> [babip |-> b, iso |-> NULL, woba |-> NULL],
      statcast_data |-> [kind |-> "statcast", exit_velo |-> NULL, hard_hit_pct |-> h,
                         barrel_pct |-> NULL, xwoba |-> NULL, batted_balls |-> Num(60)],
      career_baseline |-> [career_babip |-> cb, career_iso |-> RNULL,
                           career_exit_velo |-> RNULL, career_hard_hit_pct |-> ch,
                           career_barrel_pct |-> RNULL]] :
         b \in SeasonValues({259, 260, 340, 341}), cb \in CareerAverages({300}),
         h \in SeasonValues({379, 380, 420, 421}), ch \in CareerAverages({400})}

PowerSustainabilityCalls ==
    {[op |-> "detect_power_sustainability",
      current_stats |-> [babip |-> NULL, iso |-> i, woba |-> NULL],
      statcast_data |-> [kind |-> "statcast", exit_velo |-> e, hard_hit_pct |-> NULL,
                         barrel_pct |-> b, xwoba |-> NULL, batted_balls |-> Num(60)],
      career_baseline |-> [career_babip |-> RNULL, career_iso |-> ci,
                           career_exit_velo |-> ce, career_hard_hit_pct |-> RNULL,
                           career_barrel_pct |-> cb]] :
         i \in SeasonValues({99, 100, 210, 211}), ci \in CareerAverages({150}),
         e \in SeasonValues({899, 900, 901}), ce \in CareerAverages({900}),
         b \in SeasonValues({79, 80, 90, 91}), cb \in CareerAverages({80})}

ExitVeloCalls ==
    {[op |-> "detect_exit_velo_decline",
      statcast_data |-> [kind |-> "statcast", exit_velo |-> e, hard_hit_pct |-> NULL,
                         barrel_pct |-> NULL, xwoba |-> NULL, batted_balls |-> Num(60)],
      career_baseline |-> cb] :
         e \in SeasonValues({879, 880, 900}),
         cb \in {None} \cup {[kind |-> "statcast_baseline", career_exit_velo |-> ce,
                              career_hard_hit_pct |-> RNULL, career_barrel_pct |-> RNULL,
                              seasons |-> 2] : ce \in CareerAverages({900})}}

ExpectedStatsCalls ==
    {[op |-> "detect_expected_stats_divergence",
      current_stats |-> [babip |-> NULL, iso |-> NULL, woba |-> w],
      statcast_data |-> [kind |-> "statcast", exit_velo |-> NULL, hard_hit_pct |-> NULL,
                         barrel_pct |-> NULL, xwoba |-> x, batted_balls |-> Num(60)]] :
         w \in SeasonValues({299, 300, 320, 340, 341}), x \in SeasonValues({320})}

InitScore ==
    /\ season_stats = EmptyStore
    /\ statcast_data = EmptyStore
    /\ others = NoOthers
    /\ birth_year = NULL
    /\ league_averages = NoLeagueRows
    /\ threads = NoThreads
    /\ call \in AgeCalls \cup DisciplineCalls \cup PowerCalls \cup ContactCalls
                \cup LuckyCalls \cup PowerSustainabilityCalls \cup ExitVeloCalls
                \cup ExpectedStatsCalls
    /\ result = NotRun

GetAgeAdjustment ==
    /\ call.op = "get_age_adjustment"
    /\ result = NotRun
    /\ result' = [kind |-> "adjustment",
                  adj |-> get_age_adjustment(call.current_age, call.next_age)]
    /\ UNCHANGED <<season_stats, statcast_data, others, birth_year,
                   league_averages, threads, call>>

CalculatePlateDisciplineScore ==
    /\ call.op = "calculate_plate_discipline_score"
    /\ result = NotRun
    /\ result' = calculate_plate_discipline_score(call.k_pct, call.bb_pct,
                     call.career_k_pct, call.career_bb_pct)
    /\ UNCHANGED <<season_stats, statcast_data, others, birth_year,
                   league_averages, threads, call>>

CalculatePowerSustainabilityScore ==
    /\ call.op = "calculate_power_sustainability_score"
    /\ result = NotRun
    /\ result' = calculate_power_sustainability_score(call.iso, call.hr_fb_pct,
                     call.career_iso, call.career_hr_fb_pct)
    /\ UNCHANGED <<season_stats, statcast_data, others, birth_year,
                   league_averages, threads, call>>

CalculateContactQualityScore ==
    /\ call.op = "calculate_contact_quality_score"
    /\ result = NotRun
    /\ result' = calculate_contact_quality_score(call.babip, call.career_babip,
                     call.iso, call.career_iso)
    /\ UNCHANGED <<season_stats, statcast_data, others, birth_year,
                   league_averages, threads, call>>

DetectLuckyVsUnlucky ==
    /\ call.op = "detect_lucky_vs_unlucky"
    /\ result = NotRun
    /\ result' = detect_lucky_vs_unlucky(call.current_stats, call.statcast_data,
                                         call.career_baseline)
    /\ UNCHANGED <<season_stats, statcast_data, others, birth_year,
                   league_averages, threads, call>>

DetectPowerSustainability ==
    /\ call.op = "detect_power_sustainability"
    /\ result = NotRun
    /\ result' = detect_power_sustainability(call.current_stats, call.statcast_data,
                                             call.career_baseline)
    /\ UNCHANGED <<season_stats, statcast_data, others, birth_year,
                   league_averages, threads, call>>

DetectExitVeloDecline ==
    /\ call.op = "detect_exit_velo_decline"
    /\ result = NotRun
    /\ result' = detect_exit_velo_decline(call.statcast_data, call.career_baseline)
    /\ UNCHANGED <<season_stats, statcast_data, others, birth_year,
                   league_averages, threads, call>>

DetectExpectedStatsDivergence ==
    /\ call.op = "detect_expected_stats_divergence"
    /\ result = NotRun
    /\ result' = detect_expected_stats_divergence(call.current_stats,
                                                  call.statcast_data)
    /\ UNCHANGED <<season_stats, statcast_data, others, birth_year,
                   league_averages, threads, call>>

NextScore ==
    \/ GetAgeAdjustment
    \/ CalculatePlateDisciplineScore
    \/ CalculatePowerSustainabilityScore
    \/ CalculateContactQualityScore
    \/ DetectLuckyVsUnlucky
    \/ DetectPowerSustainability
    \/ DetectExitVeloDecline
    \/ DetectExpectedStatsDivergence

SpecScore == InitScore /\ [][NextScore]_vars

\* ------------------------------------------------------ database sessions

\* The steps of a method that matter to its database session.  Open is
\* `session = get_session()` followed by `try:`; Query is a statement sent to
\* the store, whose answer is rows, nothing, or an exception of the store; Work
\* is computation in memory, which goes on, returns None (where the method has
\* such a return) or raises; Call is a call of another method; ForEach calls a
\* method once for every player found; EndTry is the end of a try block that is
\* not the end of the method.  on_empty and on_none say what the method does
\* with an empty answer and with None from the callee.
Open == [op |-> "open"]
Query(on_empty) == [op |-> "query", on_empty |-> on_empty]
Work(may_return_none) == [op |-> "work", may_return_none |-> may_return_none]
Call(fn, on_none) == [op |-> "call", fn |-> fn, on_none |-> on_none]
ForEach(fn) == [op |-> "foreach", fn |-> fn]
EndTry == [op |-> "end_try"]

get_player_career_baseline_flow ==
    <<Open, Query("return_none")>>

analyze_player_season_flow ==
    <<Open, Query("return_none"),
      Call("_get_player_career_baseline", "return_none"), Work(FALSE)>>

scan_all_current_season_flow ==
    <<Open, Query("continue"), ForEach("analyze_player_season")>>

get_statcast_data_flow ==
    <<Open, Query("return_none")>>

get_career_statcast_baseline_flow ==
    <<Open, Query("return_none")>>

\* row[0] of a missing row raises TypeError inside the try block.
analyze_player_season_with_statcast_flow ==
    <<Call("analyze_player_season", "return_none"),
      Call("get_statcast_data", "return_value"),
      Call("get_career_statcast_baseline", "continue"),
      Open, Query("raise"), EndTry,
      Call("_get_player_career_baseline", "continue"), Work(FALSE)>>

predict_next_season_advanced_flow ==
    <<Open, Query("return_none"),
      Call("_get_player_career_baseline", "return_none"), Work(FALSE),
      Call("analyze_player_season", "continue"), Work(FALSE)>>

get_player_career_trajectory_flow ==
    <<Open, Query("return_none"), Work(FALSE)>>

calculate_aging_curve_flow ==
    <<Open, Query("return_none"), Work(FALSE)>>

calculate_league_percentiles_flow ==
    <<Open, Query("return_none"), Work(FALSE)>>

get_player_percentile_flow ==
    <<Open, Query("return_none"), Work(FALSE)>>

classify_all_seasons_flow ==
    <<Open, Query("continue"), Work(FALSE)>>

calculate_role_cohort_stats_flow ==
    <<Call("classify_all_seasons", "continue"), Work(TRUE),
      Open, Query("continue"), Work(FALSE)>>

\* The methods called from outside, and the flow of each method.
SessionEntryPoints ==
    {"analyze_player_season", "_get_player_career_baseline",
     "scan_all_current_season", "get_statcast_data",
     "get_career_statcast_baseline", "analyze_player_season_with_statcast",
     "predict_next_season_advanced", "get_player_career_trajectory",
     "calculate_aging_curve", "calculate_league_percentiles",
     "get_player_percentile", "calculate_role_cohort_stats"}

FlowOf(fn) ==
    CASE fn = "analyze_player_season" -> analyze_player_season_flow
      [] fn = "_get_player_career_baseline" -> get_player_career_baseline_flow
      [] fn = "scan_all_current_season" -> scan_all_current_season_flow
      [] fn = "get_statcast_data" -> get_statcast_data_flow
      [] fn = "get_career_statcast_baseline" -> get_career_statcast_baseline_flow
      [] fn = "analyze_player_season_with_statcast"
             -> analyze_player_season_with_statcast_flow
      [] fn = "predict_next_season_advanced" -> predict_next_season_advanced_flow
      [] fn = "get_player_career_trajectory" -> get_player_career_trajectory_flow
      [] fn = "calculate_aging_curve" -> calculate_aging_curve_flow
      [] fn = "calculate_league_percentiles" -> calculate_league_percentiles_flow
      [] fn = "get_player_percentile" -> get_player_percentile_flow
      [] fn = "classify_all_seasons" -> classify_all_seasons_flow
      [] fn = "calculate_role_cohort_stats" -> calculate_role_cohort_stats_flow

\* The most players a scan finds.
MaxScanned == 2

\* A frame of the call stack: the method, its position, the session of the try
\* block it is in (0 outside one), the players it has gone through, and
\* whether it is running, returning or raising.
Frame(fn) == [fn |-> fn, pc |-> 1, session |-> 0, iter |-> 0, status |-> "run"]

Running == call.op = "entry" /\ call.stack # <<>>
Top == call.stack[Len(call.stack)]
AtStep(op) ==
    /\ Running
    /\ Top.status = "run"
    /\ Top.pc <= Len(FlowOf(Top.fn))
    /\ FlowOf(Top.fn)[Top.pc].op = op
CurrentStep == FlowOf(Top.fn)[Top.pc]
WithTop(frame) == [call EXCEPT !.stack = [call.stack EXCEPT ![Len(call.stack)] = frame]]
Advanced(frame) == [frame EXCEPT !.pc = frame.pc + 1]
Ending(frame, status) == [frame EXCEPT !.status = status]
Push(frame) == [call EXCEPT !.stack = Append(call.stack, frame)]

\* session.close() of a session table entry.
CloseSession(sessions, s) == [sessions EXCEPT ![s] = "closed"]

\* A close() that runs only when the block ends without an exception.
Unwind_unprotected(frame, sessions) ==
    IF frame.session = 0 \/ frame.status = "raise" THEN sessions
    ELSE CloseSession(sessions, frame.session)

\* `finally: session.close()`: leaving a try block, by return or by exception,
\* closes the session of the block.
Unwind(frame, sessions) ==
    IF frame.session = 0 THEN sessions
    ELSE CloseSession(sessions, frame.session)

InitSession ==
    /\ season_stats = EmptyStore
    /\ statcast_data = EmptyStore
    /\ others = NoOthers
    /\ birth_year = NULL
    /\ league_averages = calculate_league_averages
    /\ threads = NoThreads
    /\ call = Idle
    /\ result = NotRun

\* A caller outside the analytics code calls an entry point; sessions left open
\* by earlier calls stay open.
BeginEntryPoint(fn) ==
    /\ call = Idle \/ (call.op = "entry" /\ call.stack = <<>>)
    /\ call' = [op |-> "entry", fn |-> fn, stack |-> <<Frame(fn)>>,
                sessions |-> IF call = Idle THEN <<>>
                             ELSE SelectSeq(call.sessions, LAMBDA s : s = "open")]
    /\ result' = NotRun
    /\ UNCHANGED <<season_stats, statcast_data, others, birth_year,
                   league_averages, threads>>

\* session = get_session(): SessionLocal() makes a new session.
GetSession ==
    /\ AtStep("open")
    /\ call' = [WithTop([Advanced(Top) EXCEPT !.session = Len(call.sessions) + 1])
                   EXCEPT !.sessions = Append(call.sessions, "open")]
    /\ UNCHANGED <<season_stats, statcast_data, others, birth_year,
                   league_averages, threads, result>>

\* session.execute(...) or pd.read_sql(...): rows, nothing, or an exception.
ExecuteQuery(answer) ==
    /\ AtStep("query")
    /\ call' = IF answer = "error" THEN WithTop(Ending(Top, "raise"))
               ELSE IF answer = "rows" \/ CurrentStep.on_empty = "continue"
               THEN WithTop(Advanced(Top))
               ELSE WithTop(Ending(Top, CurrentStep.on_empty))
    /\ UNCHANGED <<season_stats, statcast_data, others, birth_year,
                   league_averages, threads, result>>

\* Computation on the values read.
Compute(outcome) ==
    /\ AtStep("work")
    /\ outcome = "return_none" => CurrentStep.may_return_none
    /\ call' = IF outcome = "continue" THEN WithTop(Advanced(Top))
               ELSE WithTop(Ending(Top, outcome))
    /\ UNCHANGED <<season_stats, statcast_data, others, birth_year,
                   league_averages, threads, result>>

\* self.method(...)
CallMethod ==
    /\ AtStep("call")
    /\ call' = Push(Frame(CurrentStep.fn))
    /\ UNCHANGED <<season_stats, statcast_data, others, birth_year,
                   league_averages, threads, result>>

\* for player_id in player_ids: self.analyze_player_season(player_id, season)
ForEachPlayer(more) ==
    /\ AtStep("foreach")
    /\ more => Top.iter < MaxScanned
    /\ call' = IF more
               THEN [WithTop([Top EXCEPT !.iter = Top.iter + 1])
                        EXCEPT !.stack = Append(@, Frame(CurrentStep.fn))]
               ELSE WithTop(Advanced(Top))
    /\ UNCHANGED <<season_stats, statcast_data, others, birth_year,
                   league_averages, threads, result>>

\* The end of a try block inside the method: the finally clause runs.
LeaveTry ==
    /\ AtStep("end_try")
    /\ call' = [WithTop([Advanced(Top) EXCEPT !.session = 0])
                   EXCEPT !.sessions = Unwind(Top, call.sessions)]
    /\ UNCHANGED <<season_stats, statcast_data, others, birth_year,
                   league_averages, threads, result>>

\* What the caller does with the outcome of the call it made.
Resumed(caller, outcome) ==
    LET step == FlowOf(caller.fn)[caller.pc]
    IN  IF outcome = "raise" THEN Ending(caller, "raise")
        ELSE IF step.op = "foreach" THEN caller
        ELSE IF outcome = "return_value" \/ step.on_none = "continue"
        THEN Advanced(caller)
        ELSE Ending(caller, step.on_none)

\* The method returns or raises: the finally clause of the try block it is in
\* runs, and the caller goes on with the outcome.
LeaveMethod ==
    /\ Running
    /\ Top.status # "run" \/ Top.pc > Len(FlowOf(Top.fn))
    /\ LET outcome == IF Top.status = "run" THEN "return_value" ELSE Top.status
           depth == Len(call.stack)
           sessions == Unwind(Top, call.sessions)
       IN  IF depth = 1
           THEN /\ call' = [call EXCEPT !.stack = <<>>, !.sessions = sessions]
                /\ result' = IF outcome = "raise" THEN Raised("Exception")
                             ELSE IF outcome = "return_none" THEN None
                             ELSE [kind |-> "value"]
           ELSE /\ call' = [call EXCEPT
                               !.stack = [i \in 1..(depth - 1) |->
                                             IF i = depth - 1
                                             THEN Resumed(call.stack[i], outcome)
                                             ELSE call.stack[i]],
                               !.sessions = sessions]
                /\ result' = result
    /\ UNCHANGED <<season_stats, statcast_data, others, birth_year,
                   league_averages, threads>>

NextSession ==
    \/ \E fn \in SessionEntryPoints : BeginEntryPoint(fn)
    \/ GetSession
    \/ \E answer \in {"rows", "empty", "error"} : ExecuteQuery(answer)
    \/ \E outcome \in {"continue", "return_none", "raise"} : Compute(outcome)
    \/ CallMethod
    \/ \E more \in BOOLEAN : ForEachPlayer(more)
    \/ LeaveTry
    \/ LeaveMethod

SpecSession == InitSession /\ [][NextSession]_vars

\* ================================================================ claims

Analyzed == call.op = "analyze_player_season"

\* The seasons before `season` in which the player has a row with PA >= 50,
\* and their summed PA (0 when there is none).
PriorSeasons(player_id, season) ==
    {t \in Seasons : /\ t < season
                     /\ player_id \in StoredPlayers
                     /\ season_stats[t].kind = "row"
                     /\ season_stats[t].pa >= 50}

PriorPA(player_id, season) ==
    SetSum(PriorSeasons(player_id, season),
           [t \in PriorSeasons(player_id, season) |-> season_stats[t].pa])

RowExists(player_id, season) ==
    player_id \in StoredPlayers /\ season_stats[season].kind = "row"

\* C1: analyze_player_season returns None whenever the season row is missing or
\* the summed PA of the prior seasons with PA >= 50 is below 200.
C1_InsufficientBaselineIsNone ==
    Analyzed =>
        ((~RowExists(call.player_id, call.season)
          \/ PriorPA(call.player_id, call.season) < 200)
         => result.kind = "None")

\* C1 witness: a row exists, prior seasons with PA >= 50 exist, they sum to less
\* than 200 PA, and the analysis returned None.
C1_Witness ==
    /\ Analyzed
    /\ RowExists(call.player_id, call.season)
    /\ PriorSeasons(call.player_id, call.season) # {}
    /\ PriorPA(call.player_id, call.season) < 200
    /\ result.kind = "None"

\* The five metrics: alert name, season-row column, tier-3 threshold as the
\* claim states it (thousandths for BABIP and ISO, tenths of a point otherwise).
Metrics == {"BABIP", "K%", "BB%", "ISO", "HR/FB%"}

ColumnOf(metric) ==
    CASE metric = "BABIP" -> "babip"
      [] metric = "K%" -> "k_pct"
      [] metric = "BB%" -> "bb_pct"
      [] metric = "ISO" -> "iso"
      [] metric = "HR/FB%" -> "hr_fb_pct"

ClaimedThresholds(metric) ==
    CASE metric = "BABIP" -> <<50, 30, 15>>
      [] metric = "K%" -> <<50, 30, 15>>
      [] metric = "BB%" -> <<40, 25, 15>>
      [] metric = "ISO" -> <<60, 40, 25>>
      [] metric = "HR/FB%" -> <<80, 50, 30>>

\* The prior seasons whose value of the column is not NULL, their sum and count:
\* the career value is PriorSum / PriorCount.
PriorWith(player_id, season, col) ==
    {t \in PriorSeasons(player_id, season) : season_stats[t][col].k = "num"}

PriorSum(player_id, season, col) ==
    SetSum(PriorWith(player_id, season, col),
           [t \in PriorWith(player_id, season, col) |-> season_stats[t][col].v])

PriorCount(player_id, season, col) == Cardinality(PriorWith(player_id, season, col))

\* |current - career| >= threshold for the metric, both being present.
Reaches(player_id, season, metric, threshold) ==
    LET col == ColumnOf(metric)
        cnt == PriorCount(player_id, season, col)
    IN  /\ season_stats[season][col].k = "num"
        /\ cnt > 0
        /\ Abs(season_stats[season][col].v * cnt - PriorSum(player_id, season, col))
               >= threshold * cnt

AlertsFor(metric) == {i \in DOMAIN result.alerts : result.alerts[i].metric = metric}

C5_AggregatesMatchAlerts ==
    (Analyzed /\ result.kind = "analysis") =>
        LET n == Len(result.alerts)
            buys == {i \in 1..n : result.alerts[i].signal = "BUY"}
            sells == {i \in 1..n : result.alerts[i].signal = "SELL"}
        IN  /\ result.buy_signals = Cardinality(buys)
            /\ result.sell_signals = Cardinality(sells)
            /\ result.buy_signals + result.sell_signals = result.alert_count
            /\ result.alert_count = n
            /\ result.net_signal = result.buy_signals - result.sell_signals
            /\ (result.max_tier.k = "null") <=> (n = 0)
            /\ n > 0 =>
                  /\ \E i \in 1..n : result.alerts[i].tier = result.max_tier.v
                  /\ \A i \in 1..n : result.alerts[i].tier >= result.max_tier.v

\* C5 witness: an analysis with BUY and SELL alerts of different tiers.
C5_Witness ==
    /\ Analyzed
    /\ result.kind = "analysis"
    /\ result.buy_signals > 0
    /\ result.sell_signals > 0
    /\ \E i, j \in DOMAIN result.alerts : result.alerts[i].tier < result.alerts[j].tier

\* A detector has returned.
Detected == call.op \in DetectorOps /\ result # NotRun

MetricOfOp(op) ==
    CASE op = "detect_babip_regression" -> "BABIP"
      [] op = "detect_k_rate_regression" -> "K%"
      [] op = "detect_bb_rate_regression" -> "BB%"
      [] op = "detect_iso_regression" -> "ISO"
      [] op = "detect_hr_fb_regression" -> "HR/FB%"

\* The tier a detector returned, 0 for no alert.
ReturnedTier == IF result.kind = "alert" THEN result.tier ELSE 0

\* |current - career| of the call, times career.d.
CallAbsDelta == Abs(call.current.v * call.career.d - call.career.n)

C3_SignalBySignOfDelta ==
    (Detected /\ result.kind = "alert") =>
        /\ result.delta.n # 0
        /\ result.metric = MetricOfOp(call.op)
        /\ result.metric \in {"BABIP", "K%", "HR/FB%"} =>
               result.signal = (IF result.delta.n > 0 THEN "SELL" ELSE "BUY")
        /\ result.metric \in {"BB%", "ISO"} =>
               result.signal = (IF result.delta.n > 0 THEN "BUY" ELSE "SELL")

\* C3 witness: a BB% alert with a positive delta, signalled BUY.
C3_Witness ==
    /\ Detected
    /\ result.kind = "alert"
    /\ result.metric = "BB%"
    /\ result.delta.n > 0
    /\ result.signal = "BUY"

\* classify_season has returned.
Classified == call.op = "classify_season" /\ result # NotRun

NineRoles ==
    {"EVERYDAY_REGULAR", "EVERYDAY_PLATOON_LEANING", "STRONG_SIDE_PLATOON",
     "HIGH_LEVERAGE_ROLE_PLAYER", "ROTATIONAL_REGULAR", "DEFENSIVE_REPLACEMENT",
     "BENCH_BAT", "UTILITY_DEPTH", "FRINGE_ROSTER"}

\* The claim's ordered rule list on (games, pa, team_games), team_games > 0:
\* role and confidence in hundredths.
ClaimedRole(g, pa, tg) ==
    IF 10 * pa >= 35 * tg /\ 100 * g >= 75 * tg THEN <<"EVERYDAY_REGULAR", 95>>
    ELSE IF 10 * pa >= 30 * tg /\ 100 * g >= 65 * tg THEN <<"EVERYDAY_REGULAR", 90>>
    ELSE IF 10 * pa >= 20 * tg THEN <<"ROTATIONAL_REGULAR", 85>>
    ELSE IF 10 * pa >= 10 * tg
         THEN (IF 100 * g < 25 * tg THEN <<"DEFENSIVE_REPLACEMENT", 75>>
               ELSE <<"UTILITY_DEPTH", 75>>)
    ELSE <<"FRINGE_ROSTER", 90>>

\* C6: for team_games > 0 classify_season returns exactly one of the nine roles,
\* the one of the first matching rule; (150, 620, 162) is EVERYDAY_REGULAR 0.95.
C6_RoleByFirstMatchingRule ==
    (Classified /\ call.team_games > 0) =>
        /\ result.kind = "role"
        /\ result.role \in NineRoles
        /\ <<result.role, result.confidence>>
               = ClaimedRole(call.games_played, call.pa, call.team_games)
        /\ (call.games_played = 150 /\ call.pa = 620 /\ call.team_games = 162)
               => (result.role = "EVERYDAY_REGULAR" /\ result.confidence = 95)

\* C6 witness: the example call, classified.
C6_Witness ==
    /\ Classified
    /\ call.games_played = 150
    /\ call.pa = 620
    /\ call.team_games = 162
    /\ result.role = "EVERYDAY_REGULAR"

RoleRank(role) ==
    CASE role = "FRINGE_ROSTER" -> 0
      [] role \in {"UTILITY_DEPTH", "DEFENSIVE_REPLACEMENT"} -> 1
      [] role = "ROTATIONAL_REGULAR" -> 2
      [] role = "EVERYDAY_REGULAR" -> 3

\* C7: for fixed games_played and team_games > 0, a call with at least as many
\* PA never gets a lower-ranked role than the returned one.
C7_RoleMonotonicInPA ==
    (Classified /\ call.team_games > 0) =>
        \A pa2 \in call.pa..MaxPA :
            RoleRank(result.role)
                <= RoleRank(classify_season(call.games_played, pa2,
                                            call.team_games).role)

\* C7 witness: a FRINGE_ROSTER result for which a larger PA, same games and team
\* games, gives EVERYDAY_REGULAR.
C7_Witness ==
    /\ Classified
    /\ call.team_games > 0
    /\ result.role = "FRINGE_ROSTER"
    /\ \E pa2 \in call.pa..MaxPA :
           classify_season(call.games_played, pa2, call.team_games).role
               = "EVERYDAY_REGULAR"

\* C8 (as claimed): classify_season with team_games <= 0 is rejected with an
\* error and returns no RolePrediction.
C8_NonPositiveTeamGamesRejected ==
    (Classified /\ call.team_games <= 0) => result.kind = "raised"

Predicted == call.op = "predict_next_season_advanced"

QualifyingSeasons(player_id, season) ==
    {t \in Seasons : /\ t <= season
                     /\ RowExists(player_id, t)
                     /\ season_stats[t].pa >= 100}

WithStatcast == call.op = "analyze_player_season_with_statcast"

\* The statcast_data row of the call's player and season exists.
StatcastRowExists ==
    /\ call.player_id \in StoredPlayers
    /\ statcast_data[call.season].kind = "row"

ResultCount(tier, signal) ==
    Cardinality({i \in DOMAIN result.alerts :
                    result.alerts[i].tier = tier /\ result.alerts[i].signal = signal})

\* C12: with a Statcast row, net_score = (tier1_buys - tier1_sells)
\* + 0.5 x (tier2_buys - tier2_sells) over the combined alert list (here in
\* halves); tier-3 alerts add nothing.
C12_NetScoreOverCombinedAlerts ==
    (WithStatcast /\ result.kind = "statcast_analysis") =>
        /\ result.tier1_buys = ResultCount(1, "BUY")
        /\ result.tier1_sells = ResultCount(1, "SELL")
        /\ result.tier2_buys = ResultCount(2, "BUY")
        /\ result.tier2_sells = ResultCount(2, "SELL")
        /\ result.net_score_halves
               = 2 * (ResultCount(1, "BUY") - ResultCount(1, "SELL"))
                 + (ResultCount(2, "BUY") - ResultCount(2, "SELL"))

\* A result with tier-1, tier-2 and tier-3 alerts, traditional and Statcast.
C12_Witness ==
    /\ WithStatcast
    /\ result.kind = "statcast_analysis"
    /\ \E i \in DOMAIN result.alerts : result.alerts[i].tier = 3
    /\ \E i \in DOMAIN result.alerts :
           result.alerts[i].tier = 2 /\ result.alerts[i].metric = "EV_DECLINE"
    /\ \E i \in DOMAIN result.alerts : result.alerts[i].tier = 1
    /\ result.net_score_halves % 2 = 1

Scanned ==
    call.op \in {"scan_all_current_season", "generate_statcast_report",
                 "load_regression_signals"}

\* C13: every batch scan (scan_all_current_season, generate_statcast_report,
\* load_regression_signals) analyses every selected player to the end of its
\* list; a player with a null analysis, without alerts or without a Statcast
\* row never ends the scan early.
C13_ScanReachesEndOfList ==
    Scanned =>
        /\ result.kind = "scan"
        /\ result.analysed = call.players
        /\ {call.players[i] : i \in 1..Len(call.players)}
               = SelectedPlayers(CurrentSeason, 100)

\* The recent qualifying seasons of the call, latest first, at most three.
RecentSeasons == OrderDescLimit(QualifyingSeasons(call.player_id, call.season), 3)

\* The weighted baseline with 0 put for every NULL wRC+ of the recent seasons,
\* the weights 0.5, 0.3, 0.2 normalised over all of them.
ZeroTermBaseline ==
    RoundHalfEven(
        SeqSum([i \in DOMAIN RecentSeasons |->
                   IF IsNull(season_stats[RecentSeasons[i]].wrc_plus) THEN 0
                   ELSE WeightTenths[i] * season_stats[RecentSeasons[i]].wrc_plus.v]),
        SeqSum([i \in DOMAIN RecentSeasons |-> WeightTenths[i]]))

\* The detector half of C14: a metric whose current or career value is NULL has
\* no alert, and every other metric has its alert exactly when its own |delta|
\* reaches its tier-3 threshold.
C14_DetectorNullIsNoAlert ==
    (Analyzed /\ result.kind = "analysis") =>
        \A m \in Metrics :
            IF \/ IsNull(season_stats[call.season][ColumnOf(m)])
               \/ PriorCount(call.player_id, call.season, ColumnOf(m)) = 0
            THEN AlertsFor(m) = {}
            ELSE Cardinality(AlertsFor(m)) =
                     IF Reaches(call.player_id, call.season, m,
                                ClaimedThresholds(m)[3]) THEN 1 ELSE 0

\* The predictor half of C14: a Projection made from recent seasons of which one
\* has a NULL wRC+ does not have the baseline that puts 0 for the NULL.
C14_PredictorNullIsNoZeroTerm ==
    (/\ Predicted
     /\ result.kind = "projection"
     /\ \E i \in DOMAIN RecentSeasons :
            IsNull(season_stats[RecentSeasons[i]].wrc_plus))
        => result.baseline_wrc # ZeroTermBaseline

\* C14 (as claimed): a NULL rate stat is never used as the number 0: the
\* detector gives no alert for a metric whose current or career value is NULL
\* and leaves the other four metrics' alerts as they are, and the predictor does
\* not let a NULL wRC+ of a recent season enter the weighted baseline as a zero
\* term.
C14_NullNeverUsedAsZero ==
    C14_DetectorNullIsNoAlert /\ C14_PredictorNullIsNoZeroTerm

\* C15: whatever store updates and calls came before, a call of
\* analyze_player_season or predict_next_season_advanced on the long-lived
\* detector or predictor returns what a detector or predictor constructed at
\* the time of the call returns on the store as it is then.
C15_ResultIsFreshFromStore ==
    /\ Analyzed =>
           result = analyze_player_season_on(calculate_league_averages,
                                             call.player_id, call.season)
    /\ Predicted =>
           result \in predict_next_season_advanced_on(calculate_league_averages,
                                                      call.player_id, call.season)

\* An analysis with alerts returned by a detector whose league table, read at
\* construction, has no row for the analysed season although the store now has.
C15_Witness ==
    /\ Analyzed
    /\ result.kind = "analysis"
    /\ result.alerts # <<>>
    /\ call.season \notin DOMAIN league_averages
    /\ call.season \in DOMAIN calculate_league_averages

GotPercentile == call.op = "get_player_percentile"

\* The qualified rows of the call, by player: the season's rows with
\* PA >= min_pa and the metric present; and those strictly below the value.
QualifiedRows ==
    {p \in DOMAIN others :
        /\ call.season \in Seasons
        /\ others[p].season_stats[call.season].kind = "row"
        /\ others[p].season_stats[call.season].pa >= call.min_pa
        /\ others[p].season_stats[call.season][call.metric].k = "num"}

RowsBelow ==
    {p \in QualifiedRows :
        others[p].season_stats[call.season][call.metric].v * call.value.d
            < call.value.n}

\* C16: get_player_percentile returns None exactly when no row qualifies or
\* the value is None, and otherwise the integer nearest to 100 * k / N (the even
\* one of two nearest), N the qualified rows and k those strictly below the
\* value: an integer in 0..100, and 0 when no qualified row is below the value.
C16_PercentileIsRoundedShareBelow ==
    GotPercentile =>
        LET N == Cardinality(QualifiedRows)
            k == Cardinality(RowsBelow)
        IN  IF N = 0 \/ call.value.k = "null" THEN result = None
            ELSE /\ result.kind = "percentile"
                 /\ result.value \in 0..100
                 /\ 2 * Abs(100 * k - result.value * N) <= N
                 /\ (2 * Abs(100 * k - result.value * N) = N
                        => result.value % 2 = 0)
                 /\ (k = 0 => result.value = 0)

\* Eight qualified rows of which one is below the value: 12.5 is rounded to 12.
C16_Witness ==
    /\ GotPercentile
    /\ Cardinality(QualifiedRows) = 8
    /\ Cardinality(RowsBelow) = 1
    /\ result = Percentile(12)

\* The rows from which calculate_league_percentiles takes the metric's
\* percentiles are the qualified rows of the call, and the value passed is the
\* p50 it reports for the metric.
MedianRoundTrip ==
    /\ GotPercentile
    /\ QualifiedRows # {}
    /\ call.value.k = "num"
    /\ QualifiedRows =
           {p \in LeaguePercentileRows(call.season, call.min_pa) :
               ~IsNull(RowOf(p, call.season)[call.metric])}
    /\ \E o \in calculate_league_percentiles(call.season, call.min_pa) :
           /\ o.kind = "percentiles"
           /\ o.data[call.metric].p50.k = "num"
           /\ o.data[call.metric].p50.n * call.value.d
                  = call.value.n * o.data[call.metric].p50.d

RowsAbove ==
    {p \in QualifiedRows :
        others[p].season_stats[call.season][call.metric].v * call.value.d
            > call.value.n}

BreakoutChecked == call.op = "detect_breakout_season"

\* The seasons of the call's player with a row of at least min_pa PA.
CareerSeasons(min_pa) ==
    {t \in DOMAIN season_stats :
        /\ call.player_id \in StoredPlayers
        /\ season_stats[t].kind = "row"
        /\ season_stats[t].pa >= min_pa}

\* The trajectory seasons before the call's season, and the up-to-three most
\* recent of them.
EarlierSeasons == {t \in CareerSeasons(50) : t < call.season}

BaselineSeasons ==
    {t \in EarlierSeasons : Cardinality({u \in EarlierSeasons : u > t}) < 3}

BaselineSum(col) ==
    SetSum(BaselineSeasons, [t \in BaselineSeasons |-> season_stats[t][col].v])

PeakIdentified == call.op = "identify_career_peak"

\* C19: identify_career_peak returns None when the player has no season with
\* PA >= 200; otherwise peak_season is the earliest season of maximum wRC+ among
\* them, the latest season is the last of them, at_peak holds iff the latest
\* wRC+ is at least 0.95 times the peak wRC+, and years_since_peak is the latest
\* season minus the peak season, never negative.
C19_PeakIsEarliestMaximum ==
    PeakIdentified =>
        IF CareerSeasons(200) = {} THEN result = None
        ELSE /\ result.kind = "peak"
             /\ result.peak_season \in CareerSeasons(200)
             /\ result.peak_wrc_plus = season_stats[result.peak_season].wrc_plus.v
             /\ \A t \in CareerSeasons(200) :
                    /\ season_stats[t].wrc_plus.v <= result.peak_wrc_plus
                    /\ (season_stats[t].wrc_plus.v = result.peak_wrc_plus
                          => result.peak_season <= t)
             /\ result.current_season \in CareerSeasons(200)
             /\ \A t \in CareerSeasons(200) : t <= result.current_season
             /\ result.at_peak =
                    (season_stats[result.current_season].wrc_plus.v * 100
                        >= result.peak_wrc_plus * 95)
             /\ result.years_since_peak
                    = result.current_season - result.peak_season
             /\ result.years_since_peak >= 0

\* Two seasons share the peak wRC+ 120 and the latest season has 114, which is
\* 95% of it.
C19_Witness ==
    /\ PeakIdentified
    /\ result.kind = "peak"
    /\ result.peak_wrc_plus = 120
    /\ Cardinality({t \in CareerSeasons(200) :
                      season_stats[t].wrc_plus.v = 120}) = 2
    /\ result.current_wrc_plus = 114
    /\ result.at_peak
    /\ result.years_since_peak >= 2

\* What the call of a finished thread returns when it runs alone on the store,
\* a scan with the rows of its query in the same order.
RunAlone(th) ==
    CASE th.op = "analyze_player_season" ->
             analyze_player_season_on(calculate_league_averages, th.player_id, th.season)
      [] th.op = "analyze_player_season_with_statcast" ->
             analyze_player_season_with_statcast(th.player_id, th.season)
      [] th.op = "scan_all_current_season" ->
             scan_all_current_season(th.player_ids, th.season)

\* C20: whatever the interleaving of the calls on one detector, its
\* league_averages table stays the table it was constructed with, and every call
\* that has returned has returned what it returns when it runs alone on the
\* same store.
C20_SharedDetectorIsReadOnly ==
    /\ league_averages = calculate_league_averages
    /\ \A t \in DOMAIN threads :
           threads[t].pc = "done" => threads[t].result = RunAlone(threads[t])

\* Both calls have returned, one began while the other was in progress, one is
\* an analysis with Statcast alerts merged in and the other a scan with a
\* candidate.
C20_Witness ==
    /\ DOMAIN threads = ThreadIds
    /\ \A t \in ThreadIds : threads[t].pc = "done"
    /\ \E t \in ThreadIds : threads[t].concurrent
    /\ \E t \in ThreadIds : threads[t].result.kind = "statcast_analysis"
    /\ \E t \in ThreadIds :
           /\ threads[t].result.kind = "scan"
           /\ Len(threads[t].result.results) > 0

\* The recent seasons of the call, most recent first, and among three of them
\* the change of a column from the oldest to the most recent.
RecentOfCall == RecentRows(call.player_id, call.season)

ForwardChange(col) == RecentOfCall[1].row[col].v - RecentOfCall[3].row[col].v

\* C21 (as claimed): with three recent seasons over which K% fell by more than
\* 1.5 a year and BB% rose by more than 0.8 a year, oldest to most recent, the
\* change is genuine and improving and skill_change_adjustment is +5; with K%
\* rising and BB% falling by those margins it is declining and -5.
C21_SkillChangeForwardInTime ==
    (Predicted /\ result.kind = "projection" /\ Len(RecentOfCall) = 3) =>
        /\ (ForwardChange("k_pct") < -30 /\ ForwardChange("bb_pct") > 16) =>
               /\ result.skill_change.genuine_change
               /\ result.skill_change.improving
               /\ result.skill_change_adjustment = 5
        /\ (ForwardChange("k_pct") > 30 /\ ForwardChange("bb_pct") < -16) =>
               /\ result.skill_change.genuine_change
               /\ result.skill_change.declining
               /\ result.skill_change_adjustment = -5

\* The earlier seasons of the call's player with a statcast_data row of at least
\* 50 batted balls, and those of them with a number in the column.
StatcastPrior ==
    {t \in Seasons : /\ t < call.season
                     /\ statcast_data[t].kind = "row"
                     /\ statcast_data[t].batted_balls.k = "num"
                     /\ statcast_data[t].batted_balls.v >= 50}

StatcastPriorWith(col) == {t \in StatcastPrior : statcast_data[t][col].k = "num"}

\* A current value and its career value as the claim describes them: the value
\* of the season and the sum and the count of the earlier values, a count of 0
\* for no career value.  The Statcast career values need two earlier seasons.
SeasonPair(col) ==
    [cur |-> season_stats[call.season][col],
     sum |-> PriorSum(call.player_id, call.season, col),
     cnt |-> PriorCount(call.player_id, call.season, col)]

StatcastPair(col) ==
    [cur |-> statcast_data[call.season][col],
     sum |-> SetSum(StatcastPriorWith(col),
                    [t \in StatcastPriorWith(col) |-> statcast_data[t][col].v]),
     cnt |-> IF Cardinality(StatcastPrior) >= 2
             THEN Cardinality(StatcastPriorWith(col)) ELSE 0]

PairPresent(p) == p.cur.k = "num" /\ p.cnt > 0
PairNonZero(p) == p.cur.v # 0 /\ p.sum # 0

\* current - career < x and current - career > x, in the column's unit.
DeltaLess(p, x) == p.cur.v * p.cnt - p.sum < x * p.cnt
DeltaMore(p, x) == p.cur.v * p.cnt - p.sum > x * p.cnt

\* The signal and tier each of the four rules gives, <<>> for none.
ClaimedStatcastRule(rule) ==
    LET babip == SeasonPair("babip")
        iso == SeasonPair("iso")
        hard_hit == StatcastPair("hard_hit_pct")
        exit_velo == StatcastPair("exit_velo")
        barrel == StatcastPair("barrel_pct")
        woba == season_stats[call.season].woba
        xwoba == statcast_data[call.season].xwoba
    IN  CASE rule = 1 ->
                 IF ~(PairPresent(babip) /\ PairPresent(hard_hit)) THEN <<>>
                 ELSE IF DeltaLess(babip, -40) /\ DeltaMore(hard_hit, 20) THEN <<"BUY", 1>>
                 ELSE IF DeltaMore(babip, 40) /\ DeltaLess(hard_hit, -20) THEN <<"SELL", 1>>
                 ELSE <<>>
          [] rule = 2 ->
                 IF ~(PairPresent(iso) /\ PairPresent(exit_velo) /\ PairPresent(barrel))
                 THEN <<>>
                 ELSE IF /\ DeltaMore(iso, 60) /\ DeltaLess(exit_velo, 0)
                         /\ DeltaLess(barrel, 0) THEN <<"SELL", 1>>
                 ELSE IF /\ DeltaLess(iso, -50) /\ DeltaMore(exit_velo, 0)
                         /\ DeltaMore(barrel, 10) THEN <<"BUY", 1>>
                 ELSE <<>>
          [] rule = 3 ->
                 IF ~PairPresent(exit_velo) THEN <<>>
                 ELSE IF DeltaLess(exit_velo, -20) THEN <<"SELL", 2>>
                 ELSE <<>>
          [] rule = 4 ->
                 IF ~(woba.k = "num" /\ xwoba.k = "num") THEN <<>>
                 ELSE IF woba.v - xwoba.v < -20 THEN <<"BUY", 2>>
                 ELSE IF woba.v - xwoba.v > 20 THEN <<"SELL", 2>>
                 ELSE <<>>

\* The metric names under which the code reports each rule.
RuleMetrics(rule) ==
    CASE rule = 1 -> {"STATCAST_UNLUCKY", "STATCAST_LUCKY"}
      [] rule = 2 -> {"UNSUSTAINABLE_POWER", "UNLUCKY_POWER"}
      [] rule = 3 -> {"EV_DECLINE"}
      [] rule = 4 -> {"XWOBA_UNLUCKY", "XWOBA_LUCKY"}

\* What the result reports for the rule: the signal and tier of its alert.
ReportedStatcastRule(rule) ==
    LET I == {i \in DOMAIN result.alerts : result.alerts[i].metric \in RuleMetrics(rule)}
    IN  IF I = {} THEN <<>>
        ELSE IF Cardinality(I) > 1 THEN <<"more than one alert">>
        ELSE LET i == CHOOSE i \in I : TRUE
             IN  <<result.alerts[i].signal, result.alerts[i].tier>>

\* No value that a rule uses is exactly 0.
NoZeroStatcastInput ==
    /\ \A col \in {"babip", "iso"} :
           PairPresent(SeasonPair(col)) => PairNonZero(SeasonPair(col))
    /\ \A col \in {"hard_hit_pct", "exit_velo", "barrel_pct"} :
           PairPresent(StatcastPair(col)) => PairNonZero(StatcastPair(col))
    /\ season_stats[call.season].woba # Num(0)
    /\ statcast_data[call.season].xwoba # Num(0)

\* C22 (as claimed): with a Statcast row, the Statcast alerts of the result are
\* exactly those the four rules give on the current and career values: rules 1
\* to 3 whenever every value they use is present, which takes two earlier
\* Statcast seasons of at least 50 batted balls, and rule 4 on the current wOBA
\* and xwOBA alone.
C22_StatcastAlertsByFourRules ==
    (WithStatcast /\ result.kind = "statcast_analysis") =>
        \A rule \in 1..4 : ReportedStatcastRule(rule) = ClaimedStatcastRule(rule)

\* The same where no value used is exactly 0.
C22_FourRulesOnNonZeroValues ==
    (WithStatcast /\ result.kind = "statcast_analysis" /\ NoZeroStatcastInput) =>
        \A rule \in 1..4 : ReportedStatcastRule(rule) = ClaimedStatcastRule(rule)

\* The wRC+ of the recent seasons of the call, most recent first.
RecentWrc == [i \in DOMAIN RecentSeasons |-> season_stats[RecentSeasons[i]].wrc_plus]

\* C23 (as claimed): the baseline_wrc of a Projection is w1 for one recent
\* season, (5 w1 + 3 w2) / 8 for two and (5 w1 + 3 w2 + 2 w3) / 10 for three, w1
\* being the most recent (here after round()), and it lies between the smallest
\* and the largest wRC+ of those seasons.
C23_BaselineIsWeightedMean ==
    (Predicted /\ result.kind = "projection") =>
        LET w == RecentWrc
            n == Len(w)
            present == {i \in 1..n : w[i].k = "num"}
        IN  /\ n \in 1..3
            /\ (n = 1 /\ present = 1..n) => result.baseline_wrc = w[1].v
            /\ (n = 2 /\ present = 1..n) =>
                   result.baseline_wrc = RoundHalfEven(5 * w[1].v + 3 * w[2].v, 8)
            /\ (n = 3 /\ present = 1..n) =>
                   result.baseline_wrc
                       = RoundHalfEven(5 * w[1].v + 3 * w[2].v + 2 * w[3].v, 10)
            /\ \E i \in present : w[i].v <= result.baseline_wrc
            /\ \E i \in present : w[i].v >= result.baseline_wrc

AgeAdjusted == call.op = "get_age_adjustment" /\ result # NotRun

\* The curve as claimed: the table between 21 and 40, -8 below, -25 above.
ClaimedCurve(a) == IF a < 21 THEN -8 ELSE IF a > 40 THEN -25 ELSE AGE_CURVE[a]

\* C24: get_age_adjustment returns curve(next_age) - curve(current_age) and 0
\* for an unknown age; the table has its maximum +2 at 27 and 28 and does not
\* rise away from them; for next_age = current_age + 1 the adjustment is 0 up to
\* age 20 and from age 40, positive from 21 to 26 and never positive from 27.
C24_AgeAdjustmentIsCurveDifference ==
    AgeAdjusted =>
        LET cur == call.current_age
            nxt == call.next_age
        IN  /\ (IsNull(cur) \/ IsNull(nxt)) => result.adj = 0
            /\ (~IsNull(cur) /\ ~IsNull(nxt)) =>
                   /\ result.adj = ClaimedCurve(nxt.v) - ClaimedCurve(cur.v)
                   /\ nxt.v = cur.v + 1 =>
                          /\ (cur.v <= 20 \/ cur.v >= 40) => result.adj = 0
                          /\ cur.v \in 21..26 => result.adj > 0
                          /\ cur.v >= 27 => result.adj <= 0
            /\ \A a \in 21..40 : AGE_CURVE[a] <= 2 /\ (AGE_CURVE[a] = 2 <=> a \in {27, 28})
            /\ \A a \in 21..26 : AGE_CURVE[a] <= AGE_CURVE[a + 1]
            /\ \A a \in 28..39 : AGE_CURVE[a] >= AGE_CURVE[a + 1]

\* An adjustment of 0 from age 40 to 41, past the end of the table.
C24_Witness ==
    /\ AgeAdjusted
    /\ call.current_age = Num(40)
    /\ call.next_age = Num(41)
    /\ result.adj = 0

ContactScored == call.op = "calculate_contact_quality_score" /\ result # NotRun

\* The outcome of the claimed decision list on the arguments of the call, the
\* deltas in thousandths times the denominators of the career values.
ClaimedContact ==
    IF \/ IsNull(call.babip) \/ call.career_babip.k # "num"
       \/ IsNull(call.iso) \/ call.career_iso.k # "num"
    THEN <<0, "UNKNOWN">>
    ELSE LET db == call.career_babip.d
             di == call.career_iso.d
             babip_delta == call.babip.v * db - call.career_babip.n
             iso_delta == call.iso.v * di - call.career_iso.n
         IN  IF babip_delta > 40 * db
             THEN (IF iso_delta < -30 * di THEN <<-7, "LUCKY_SINGLES">>
                   ELSE IF iso_delta > 30 * di THEN <<3, "IMPROVED_CONTACT">>
                   ELSE <<-4, "BABIP_DRIVEN">>)
             ELSE IF babip_delta < -40 * db
             THEN (IF iso_delta > 30 * di THEN <<7, "UNLUCKY_POWER">>
                   ELSE <<5, "UNLUCKY">>)
             ELSE <<0, "NEUTRAL">>

\* No argument of the call is exactly 0.
NoZeroContactInput ==
    /\ call.babip # Num(0) /\ call.iso # Num(0)
    /\ call.career_babip # Rat(0, 1) /\ call.career_iso # Rat(0, 1)

\* C25 (as claimed): calculate_contact_quality_score returns the one outcome of
\* the ordered decision list on the BABIP and ISO deltas, NEUTRAL at a BABIP
\* delta of exactly +/-0.040, and 0 without a classification when one of the
\* four inputs is missing.
C25_ContactScoreByDecisionList ==
    ContactScored => <<result.adj, result.type>> = ClaimedContact

\* The same where no argument is exactly 0.
C25_DecisionListOnNonZeroValues ==
    (ContactScored /\ NoZeroContactInput) =>
        <<result.adj, result.type>> = ClaimedContact

PowerScored == call.op = "calculate_power_sustainability_score" /\ result # NotRun

\* The ISO part and the HR/FB part as claimed: the adjustment and the flags of
\* each, from the deltas of the call's arguments.
ClaimedIsoPart ==
    LET d == call.career_iso.d
        iso_delta == call.iso.v * d - call.career_iso.n
    IN  IF iso_delta > 60 * d THEN [adj |-> -5, flags |-> <<"UNSUSTAINABLE_POWER_SPIKE">>]
        ELSE IF iso_delta < -60 * d THEN [adj |-> -3, flags |-> <<"POWER_DECLINE">>]
        ELSE [adj |-> 0, flags |-> <<>>]

ClaimedHrFbPart ==
    IF IsNull(call.hr_fb_pct) \/ call.career_hr_fb_pct.k # "num"
    THEN [adj |-> 0, flags |-> <<>>]
    ELSE LET d == call.career_hr_fb_pct.d
             hr_fb_delta == call.hr_fb_pct.v * d - call.career_hr_fb_pct.n
         IN  IF hr_fb_delta > 80 * d THEN [adj |-> -3, flags |-> <<"INFLATED_HR_FB_PCT">>]
             ELSE IF hr_fb_delta < -80 * d
             THEN [adj |-> 3, flags |-> <<"DEPRESSED_HR_FB_PCT">>]
             ELSE [adj |-> 0, flags |-> <<>>]

\* No argument of the call is exactly 0.
NoZeroPowerInput ==
    /\ call.iso # Num(0) /\ call.hr_fb_pct # Num(0)
    /\ call.career_iso # Rat(0, 1) /\ call.career_hr_fb_pct # Rat(0, 1)

\* The sum of the two parts with the flags of the parts that fired, 0 without
\* flags when ISO or career ISO is missing, and one of the seven sums.
PowerScoreAsClaimed ==
    /\ IF IsNull(call.iso) \/ call.career_iso.k # "num"
       THEN result = [adj |-> 0, flags |-> <<>>]
       ELSE /\ result.adj = ClaimedIsoPart.adj + ClaimedHrFbPart.adj
            /\ result.flags = ClaimedIsoPart.flags \o ClaimedHrFbPart.flags
    /\ result.adj \in {-8, -6, -5, -3, -2, 0, 3}

\* C26 (as claimed): calculate_power_sustainability_score returns the sum of the
\* ISO part and, when both HR/FB values are available, the HR/FB part, with
\* exactly the flags of the parts that fired; the result is one of -8, -6, -5,
\* -3, -2, 0, +3, and 0 without flags when ISO or career ISO is missing.
C26_PowerScoreIsSumOfParts ==
    PowerScored => PowerScoreAsClaimed

\* The same where no argument is exactly 0.
C26_SumOfPartsOnNonZeroValues ==
    (PowerScored /\ NoZeroPowerInput) => PowerScoreAsClaimed

\* The analysis of the latest qualifying season of the call, and its alerts of
\* one tier and signal.
LatestAnalysis == analyze_player_season(call.player_id, RecentOfCall[1].season)

AlertCount(tier, signal) ==
    IF LatestAnalysis.kind # "analysis" THEN 0
    ELSE Cardinality({j \in DOMAIN LatestAnalysis.alerts :
                         /\ LatestAnalysis.alerts[j].tier = tier
                         /\ LatestAnalysis.alerts[j].signal = signal})

\* The six adjustments reported in the Projection.
ReportedAdjustments ==
    result.age_adjustment + result.discipline_adjustment + result.power_adjustment
        + result.contact_adjustment + result.skill_change_adjustment
        + result.regression_adjustment

\* A Projection from recent seasons whose wRC+ values are all known.
ProjectedFromKnownWrc ==
    /\ Predicted /\ result.kind = "projection"
    /\ \A i \in DOMAIN RecentOfCall : ~IsNull(RecentOfCall[i].row.wrc_plus)

\* C27: predicted_wrc is the unrounded weighted baseline plus the six
\* adjustments, rounded once; regression_adj is four times the tier-1 BUY alerts
\* minus four times the tier-1 SELL alerts of the analysis of the latest
\* qualifying season, 0 when that analysis is None or has no alerts, and at most
\* 20 either way.
C27_PredictedIsRoundedSum ==
    ProjectedFromKnownWrc =>
        LET n == Len(RecentOfCall)
            base_n == SeqSum([i \in 1..n |->
                                 WeightTenths[i] * RecentOfCall[i].row.wrc_plus.v])
            base_d == SeqSum([i \in 1..n |-> WeightTenths[i]])
        IN  /\ result.predicted_wrc
                   = RoundHalfEven(base_n + base_d * ReportedAdjustments, base_d)
            /\ result.regression_adjustment
                   = 4 * AlertCount(1, "BUY") - 4 * AlertCount(1, "SELL")
            /\ (LatestAnalysis.kind # "analysis" \/ LatestAnalysis.alerts = <<>>)
                   => result.regression_adjustment = 0
            /\ result.regression_adjustment \in -20..20

\* A Projection with a tier-1 alert counted and a tier-2 or tier-3 alert left
\* out, from a weighted baseline that is not a whole number.
C27_Witness ==
    /\ ProjectedFromKnownWrc
    /\ result.regression_adjustment # 0
    /\ \E tier \in {2, 3}, signal \in {"BUY", "SELL"} : AlertCount(tier, signal) > 0
    /\ LET n == Len(RecentOfCall)
       IN  SeqSum([i \in 1..n |-> WeightTenths[i] * RecentOfCall[i].row.wrc_plus.v])
               % SeqSum([i \in 1..n |-> WeightTenths[i]]) # 0

\* The sessions that are open, and those a frame of the stack will still close.
OpenSessions ==
    IF call.op # "entry" THEN {}
    ELSE {s \in DOMAIN call.sessions : call.sessions[s] = "open"}

HeldSessions ==
    IF call.op # "entry" THEN {}
    ELSE {call.stack[i].session : i \in DOMAIN call.stack} \ {0}

\* C28: every session an entry point or a method it calls has opened is closed
\* by the time that method has returned or raised: an open session is always
\* the session of a try block still on the stack, and none is open once the
\* outermost call has ended, whether with a value, with None or with an
\* exception of the store.
C28_SessionsClosedOnEveryPath ==
    /\ OpenSessions \subseteq HeldSessions
    /\ (call.op = "entry" /\ call.stack = <<>>) => OpenSessions = {}

\* A call that opened at least three sessions has ended with an exception.
C28_Witness ==
    /\ call.op = "entry" /\ call.stack = <<>>
    /\ result = Raised("Exception")
    /\ Len(call.sessions) >= 3

IsZero(x) == x = Num(0) \/ x = Rat(0, 1)
Unzero(x) == IF x = Num(0) THEN NULL ELSE IF x = Rat(0, 1) THEN RNULL ELSE x

\* A score of the predictor or a rule of the Statcast detector has been run.
ComponentRun ==
    /\ call.op \in {"calculate_plate_discipline_score",
                    "calculate_power_sustainability_score",
                    "calculate_contact_quality_score", "detect_lucky_vs_unlucky",
                    "detect_power_sustainability", "detect_exit_velo_decline",
                    "detect_expected_stats_divergence"}
    /\ result # NotRun

\* The inputs the component compares.
ComponentInputs ==
    CASE call.op = "calculate_plate_discipline_score"
             -> {call.k_pct, call.bb_pct, call.career_k_pct, call.career_bb_pct}
      [] call.op = "calculate_power_sustainability_score"
             -> {call.iso, call.hr_fb_pct, call.career_iso, call.career_hr_fb_pct}
      [] call.op = "calculate_contact_quality_score"
             -> {call.babip, call.career_babip, call.iso, call.career_iso}
      [] call.op = "detect_lucky_vs_unlucky"
             -> {call.current_stats.babip, call.career_baseline.career_babip,
                 call.statcast_data.hard_hit_pct,
                 call.career_baseline.career_hard_hit_pct}
      [] call.op = "detect_power_sustainability"
             -> {call.current_stats.iso, call.career_baseline.career_iso,
                 call.statcast_data.exit_velo,
                 call.career_baseline.career_exit_velo,
                 call.statcast_data.barrel_pct,
                 call.career_baseline.career_barrel_pct}
      [] call.op = "detect_exit_velo_decline"
             -> {call.statcast_data.exit_velo}
                \cup (IF call.career_baseline.kind = "None" THEN {}
                      ELSE {call.career_baseline.career_exit_velo})
      [] call.op = "detect_expected_stats_divergence"
             -> {call.current_stats.woba, call.statcast_data.xwoba}

\* What the component gives for a missing input.
NothingScored ==
    CASE call.op = "calculate_plate_discipline_score"
             -> [adj |-> 0, confidence |-> "NONE"]
      [] call.op = "calculate_power_sustainability_score"
             -> [adj |-> 0, flags |-> <<>>]
      [] call.op = "calculate_contact_quality_score"
             -> [adj |-> 0, type |-> "UNKNOWN"]
      [] OTHER -> NoAlert

\* The component run on the call's inputs with None in the place of every 0.
UnzeroStats(d) == [k \in DOMAIN d |-> Unzero(d[k])]
UnzeroDict(d) ==
    IF d.kind = "None" THEN d
    ELSE [k \in DOMAIN d |-> IF k \in {"kind", "seasons", "batted_balls"} THEN d[k]
                             ELSE Unzero(d[k])]

ResultWithZerosMissing ==
    CASE call.op = "calculate_plate_discipline_score"
             -> calculate_plate_discipline_score(Unzero(call.k_pct),
                    Unzero(call.bb_pct), Unzero(call.career_k_pct),
                    Unzero(call.career_bb_pct))
      [] call.op = "calculate_power_sustainability_score"
             -> calculate_power_sustainability_score(Unzero(call.iso),
                    Unzero(call.hr_fb_pct), Unzero(call.career_iso),
                    Unzero(call.career_hr_fb_pct))
      [] call.op = "calculate_contact_quality_score"
             -> calculate_contact_quality_score(Unzero(call.babip),
                    Unzero(call.career_babip), Unzero(call.iso),
                    Unzero(call.career_iso))
      [] call.op = "detect_lucky_vs_unlucky"
             -> detect_lucky_vs_unlucky(UnzeroStats(call.current_stats),
                    UnzeroDict(call.statcast_data), UnzeroStats(call.career_baseline))
      [] call.op = "detect_power_sustainability"
             -> detect_power_sustainability(UnzeroStats(call.current_stats),
                    UnzeroDict(call.statcast_data), UnzeroStats(call.career_baseline))
      [] call.op = "detect_exit_velo_decline"
             -> detect_exit_velo_decline(UnzeroDict(call.statcast_data),
                                         UnzeroDict(call.career_baseline))
      [] call.op = "detect_expected_stats_divergence"
             -> detect_expected_stats_divergence(UnzeroStats(call.current_stats),
                                                 UnzeroDict(call.statcast_data))

\* The power score's inputs other than HR/FB% and career HR/FB%.
ZeroOnlyInHrFb ==
    /\ call.op = "calculate_power_sustainability_score"
    /\ ~IsZero(call.iso) /\ ~IsZero(call.career_iso)

\* Each of RegressionDetector's five detectors alerts on a current value of 0
\* and gives nothing for a missing one.
FiveDetectorsDistinguishZero ==
    /\ detect_babip_regression(Num(0), Rat(300, 1)) # NoAlert
    /\ detect_k_rate_regression(Num(0), Rat(215, 1)) # NoAlert
    /\ detect_bb_rate_regression(Num(0), Rat(80, 1)) # NoAlert
    /\ detect_iso_regression(Num(0), Rat(150, 1)) # NoAlert
    /\ detect_hr_fb_regression(Num(0), Rat(120, 1)) # NoAlert
    /\ detect_babip_regression(NULL, Rat(300, 1)) = NoAlert
    /\ detect_k_rate_regression(NULL, Rat(215, 1)) = NoAlert
    /\ detect_bb_rate_regression(NULL, Rat(80, 1)) = NoAlert
    /\ detect_iso_regression(NULL, Rat(150, 1)) = NoAlert
    /\ detect_hr_fb_regression(NULL, Rat(120, 1)) = NoAlert

BaselineNum ==
    SeqSum([i \in DOMAIN RecentOfCall |->
               WeightTenths[i] * RecentOfCall[i].row.wrc_plus.v])
BaselineDen == SeqSum([i \in DOMAIN RecentOfCall |-> WeightTenths[i]])

\* C30 (as claimed): the reported baseline_wrc plus the six reported
\* adjustments equals the reported predicted_wrc.
C30_BreakdownIsAdditive ==
    ProjectedFromKnownWrc =>
        result.baseline_wrc + ReportedAdjustments = result.predicted_wrc

\* The same where the weighted baseline is not a whole number and a half.
C30_AdditiveOffHalves ==
    (ProjectedFromKnownWrc /\ (2 * BaselineNum) % (2 * BaselineDen) # BaselineDen)
        => result.baseline_wrc + ReportedAdjustments = result.predicted_wrc

====
